---- MODULE Spec2Model ----
(***************************************************************************)
(* State-machine model of the WASL property monitor:                       *)
(*   src/api_client.py        fetch aggregator (fetch_all_properties)      *)
(*   src/database.py          SQLite store (properties, price_history,     *)
(*                            monitoring_log) and the content hash         *)
(*   src/property_monitor.py  one monitoring cycle (reconciliation)        *)
(*   src/scheduler.py         the job that wraps a cycle                   *)
(*   src/telegram_bot.py      the notification sink                        *)
(***************************************************************************)
EXTENDS Integers, Sequences, FiniteSets, TLC

VARIABLES
    properties,          \* table properties: a set of rows
    seq_properties,      \* AUTOINCREMENT counter of table properties
    price_history,       \* table price_history: rows in insertion order
    monitoring_log,      \* table monitoring_log: rows in insertion order
    consecutive_errors,  \* PropertyMonitor.consecutive_errors
    sched_errors,        \* PropertyMonitorScheduler.consecutive_errors
    now,                 \* the clock behind CURRENT_TIMESTAMP: it ticks
                         \* between two cycles that write the store
    pc,                  \* position of the monitoring job
    current_properties,  \* run_monitoring_cycle: the fetched snapshot
    idx,                 \* _process_properties: position of the for loop
    new_count,           \* _process_properties: new_count
    updated_count,       \* _process_properties: updated_count
    deleted_ids,         \* _check_for_deleted_properties: ids still to visit
    deleted_count,       \* _check_for_deleted_properties: deleted_count
    stats,               \* the dict run_monitoring_cycle returned
    cycles,              \* number of cycles that fetched a non-empty snapshot
    trace,               \* store mutations and notification attempts of the
                         \* cycle in progress, in program order
    before,              \* the state the cycle in progress started from
    source_raised,       \* whether a source raised in the cycle's fetch
    fn_args,             \* pure-function specifications: the arguments
    fn_result,           \* the result of the function called alone, or what
                         \* the status reader read last
    scheduler            \* the BlockingScheduler and its monitoring job

vars == <<properties, seq_properties, price_history, monitoring_log,
          consecutive_errors, sched_errors, now, pc, current_properties, idx,
          new_count, updated_count, deleted_ids, deleted_count, stats, cycles,
          trace, before, source_raised, fn_args, fn_result, scheduler>>

store == <<properties, seq_properties, price_history, monitoring_log>>
locals == <<current_properties, idx, new_count, updated_count, deleted_ids,
            deleted_count>>

-----------------------------------------------------------------------------
(* Bounds of the model *)

\* cycles with a non-empty snapshot explored from the empty store
MaxCycles == 3
\* listings in the concatenated output of the sources of one fetch
MaxListings == 2
\* consecutive failing cycles explored between cycles that change the store
MaxEmpty == 1
\* cycles with a non-empty snapshot explored while the store can fail or
\* is read by another job
MaxFaultCycles == 2
\* consecutive failing cycles explored by the escalation specification
MaxErrors == 6
\* listings in the concatenated output given to the fetch aggregator alone
MaxFetched == 3
\* minutes of scheduler time explored
MaxMinutes == 40
\* days explored with the cleanup job
MaxDays == 125

(* Program constants *)
ERROR_NOTIFICATION_THRESHOLD == 3
MAX_CONSECUTIVE_ERRORS == 5
MONITORING_INTERVAL_MINUTES == 10
\* add_job(..., max_instances=1, coalesce=True, misfire_grace_time=300):
\* the grace time in minutes
max_instances == 1
coalesce == TRUE
misfire_grace_time == 5
\* cleanup_old_data: the ages in days beyond which it deletes
LOG_RETENTION_DAYS == 30
PRICE_HISTORY_RETENTION_DAYS == 90
INACTIVE_RETENTION_DAYS == 30

-----------------------------------------------------------------------------
(* Python / SQLite values.  A number carries its representation, because   *)
(* json.dumps writes 1000 and 1000.0 differently and because a column's    *)
(* type affinity converts what is stored.                                  *)

PyInt(n)   == [k |-> "int", n |-> n]
PyFloat(n) == [k |-> "float", n |-> n]
None     == [k |-> "null", n |-> 0]
Missing  == [k |-> "missing", n |-> 0]

\* dict.get(key, default) and dict.get(key)
Get(v, default) == IF v = Missing THEN default ELSE v
GetOrNone(v)    == IF v = Missing THEN None ELSE v

\* column affinity REAL: an integer is stored as a float
REAL(v)    == IF v.k = "int" THEN PyFloat(v.n) ELSE v
\* column affinity INTEGER: a float without fraction is stored as an integer
INTEGER(v) == IF v.k = "float" THEN PyInt(v.n) ELSE v

\* json.dumps of a number or None: 1000 -> "1000", 1000.0 -> "1000.0",
\* None -> "null"
json_dumps(v) ==
    CASE v.k = "int"   -> [lit |-> "number", digits |-> v.n, point |-> FALSE]
      [] v.k = "float" -> [lit |-> "number", digits |-> v.n, point |-> TRUE]
      [] OTHER         -> [lit |-> "null", digits |-> 0, point |-> FALSE]

\* hashlib.sha256(...).hexdigest(): a collision-free digest, so two texts
\* have the same digest exactly when they are the same text
sha256(text) == <<"sha256", text>>

\* generate_property_hash without the price among the hashed fields
generate_property_hash_drop_price(property_data) ==
    sha256([bathrooms   |-> json_dumps(Get(property_data.bathrooms, PyInt(0))),
            bedrooms    |-> json_dumps(Get(property_data.bedrooms, PyInt(0))),
            external_id |-> property_data.external_id,
            location    |-> property_data.location,
            price       |-> json_dumps(PyInt(0)),
            size_sqft   |-> json_dumps(Get(property_data.size_sqft, PyInt(0))),
            title       |-> property_data.title])

\* generate_property_hash with the url among the hashed fields
generate_property_hash_with_url(property_data) ==
    sha256([bathrooms   |-> json_dumps(Get(property_data.bathrooms, PyInt(0))),
            bedrooms    |-> json_dumps(Get(property_data.bedrooms, PyInt(0))),
            external_id |-> property_data.external_id,
            location    |-> property_data.location,
            price       |-> json_dumps(Get(property_data.price, PyInt(0))),
            size_sqft   |-> json_dumps(Get(property_data.size_sqft, PyInt(0))),
            title       |-> property_data.title,
            url         |-> property_data.url])

\* the seven hashed fields, serialized with sort_keys=True
generate_property_hash(property_data) ==
    sha256([bathrooms   |-> json_dumps(Get(property_data.bathrooms, PyInt(0))),
            bedrooms    |-> json_dumps(Get(property_data.bedrooms, PyInt(0))),
            external_id |-> property_data.external_id,
            location    |-> property_data.location,
            price       |-> json_dumps(Get(property_data.price, PyInt(0))),
            size_sqft   |-> json_dumps(Get(property_data.size_sqft, PyInt(0))),
            title       |-> property_data.title])

-----------------------------------------------------------------------------
(* Listings: the dicts the source adapters return *)

Ids    == {"X", "Y"}
Titles == {"Studio", "Studio renovated"}
Prices == {PyInt(0), PyFloat(1000), PyFloat(1200)}

Listing(e, t, p) ==
    [external_id |-> e, title |-> t, location |-> "Ras Al Khor Third",
     price |-> p, bedrooms |-> PyInt(1), bathrooms |-> PyInt(1),
     size_sqft |-> PyFloat(500), description |-> "d", url |-> "u",
     source |-> "wasl", raw_data |-> "r"]

\* an empty external_id stands for every falsy one ("" or None)
Listings == {Listing(e, t, p) : e \in Ids \cup {""}, t \in Titles, p \in Prices}

SeqsUpTo(S, n) == UNION {[1..m -> S] : m \in 0..n}

-----------------------------------------------------------------------------
(* Fetch aggregator.  What one source did in one fetch: key = its API key   *)
(* or token is configured, raised = its call raised, out = the listings it  *)
(* delivered to all_properties.                                            *)

Source(key, raised, out) == [key |-> key, raised |-> raised, out |-> out]

\* unique_properties with the dict overwritten by every later listing
RECURSIVE unique_properties_last(_, _)
unique_properties_last(all_properties, seen) ==
    IF all_properties = <<>> THEN <<>>
    ELSE LET prop == all_properties[Len(all_properties)]
             external_id == prop.external_id
             front == SubSeq(all_properties, 1, Len(all_properties) - 1)
         IN IF external_id # "" /\ external_id \notin seen
            THEN unique_properties_last(front, seen \cup {external_id})
                 \o <<prop>>
            ELSE unique_properties_last(front, seen)

\* unique_properties that keeps every listing with a truthy external_id
unique_properties_keep_all(all_properties, seen) ==
    SelectSeq(all_properties, LAMBDA prop : prop.external_id # "")

\* unique_properties without the test that external_id is truthy
RECURSIVE unique_properties_any_id(_, _)
unique_properties_any_id(all_properties, seen) ==
    IF all_properties = <<>> THEN <<>>
    ELSE LET prop == Head(all_properties)
             external_id == prop.external_id
         IN IF external_id \notin seen
            THEN <<prop>> \o unique_properties_any_id(Tail(all_properties),
                                                      seen \cup {external_id})
            ELSE unique_properties_any_id(Tail(all_properties), seen)

\* the dict unique_properties keeps the first listing of every truthy
\* external_id, and list(values()) returns them in insertion order
RECURSIVE unique_properties(_, _)
unique_properties(all_properties, seen) ==
    IF all_properties = <<>> THEN <<>>
    ELSE LET prop == Head(all_properties)
             external_id == prop.external_id
         IN IF external_id # "" /\ external_id \notin seen
            THEN <<prop>> \o unique_properties(Tail(all_properties),
                                               seen \cup {external_id})
            ELSE unique_properties(Tail(all_properties), seen)

\* all_properties when the first exception ends the fetch: the sources
\* after the one that raised deliver nothing
all_properties_of_until_raise(wasl, uae, apify) ==
    IF wasl.raised THEN <<>>
    ELSE wasl.out
         \o (IF uae.key THEN uae.out ELSE <<>>)
         \o (IF apify.key /\ ~apify.raised /\ ~(uae.key /\ uae.raised)
             THEN apify.out ELSE <<>>)

\* all_properties after the three try blocks: the Al Wasl and Apify lists
\* are appended after their call returned, the UAE lists one call at a time
all_properties_of(wasl, uae, apify) ==
    (IF wasl.raised THEN <<>> ELSE wasl.out)
    \o (IF uae.key THEN uae.out ELSE <<>>)
    \o (IF apify.key /\ ~apify.raised THEN apify.out ELSE <<>>)

\* the calls fetch_all_properties makes, each with whether it returned:
\* the scraper always, the two clients when their key or token is set
sources_called(wasl, uae, apify) ==
    <<[op |-> "call", ext |-> "wasl", ok |-> ~wasl.raised]>>
    \o (IF uae.key
        THEN <<[op |-> "call", ext |-> "uae", ok |-> ~uae.raised]>> ELSE <<>>)
    \o (IF apify.key
        THEN <<[op |-> "call", ext |-> "apify", ok |-> ~apify.raised]>>
        ELSE <<>>)

fetch_all_properties(wasl, uae, apify) ==
    unique_properties(all_properties_of(wasl, uae, apify), {})

\* some try block of fetch_all_properties caught an exception
any_source_raised(wasl, uae, apify) ==
    wasl.raised \/ (uae.key /\ uae.raised) \/ (apify.key /\ apify.raised)

\* Fetches: a concatenated output of at most n listings of S, cut in three,
\* each source raising or not, under each configuration of the two keys in
\* K.  Al Wasl and Apify deliver nothing when they raise.
Fetches(S, n, K) ==
    {<<Source(TRUE, t[4], SubSeq(t[1], 1, t[2])),
       Source(t[7][1], t[5], SubSeq(t[1], t[2] + 1, t[3])),
       Source(t[7][2], t[6], SubSeq(t[1], t[3] + 1, Len(t[1])))>> :
        t \in {u \in SeqsUpTo(S, n) \X (0..n) \X (0..n)
                     \X BOOLEAN \X BOOLEAN \X BOOLEAN \X K :
                  /\ u[2] <= u[3] /\ u[3] <= Len(u[1])
                  /\ u[4] => u[2] = 0
                  /\ u[6] => u[3] = Len(u[1])}}

-----------------------------------------------------------------------------
(* The store (src/database.py) *)

\* the row an INSERT writes, as SELECT * reads it back
Row(id, property_data, t) ==
    [id            |-> id,
     external_id   |-> property_data.external_id,
     property_hash |-> generate_property_hash(property_data),
     title         |-> property_data.title,
     location      |-> property_data.location,
     price         |-> REAL(GetOrNone(property_data.price)),
     bedrooms      |-> INTEGER(GetOrNone(property_data.bedrooms)),
     bathrooms     |-> INTEGER(GetOrNone(property_data.bathrooms)),
     size_sqft     |-> REAL(GetOrNone(property_data.size_sqft)),
     description   |-> property_data.description,
     url           |-> property_data.url,
     source        |-> property_data.source,
     raw_data      |-> property_data.raw_data,
     date_added    |-> t,
     date_modified |-> t,
     is_active     |-> TRUE]

\* Updated as INSERT OR REPLACE would leave the row: is_active is back at
\* its default
Updated_reactivating(row, property_data, t) ==
    [Row(row.id, property_data, t) EXCEPT
     !.external_id = row.external_id,
     !.source      = row.source,
     !.date_added  = row.date_added]

\* the row an UPDATE ... WHERE id = ? leaves
Updated(row, property_data, t) ==
    [row EXCEPT
     !.property_hash = generate_property_hash(property_data),
     !.title         = property_data.title,
     !.location      = property_data.location,
     !.price         = REAL(GetOrNone(property_data.price)),
     !.bedrooms      = INTEGER(GetOrNone(property_data.bedrooms)),
     !.bathrooms     = INTEGER(GetOrNone(property_data.bathrooms)),
     !.size_sqft     = REAL(GetOrNone(property_data.size_sqft)),
     !.description   = property_data.description,
     !.url           = property_data.url,
     !.raw_data      = property_data.raw_data,
     !.date_modified = t]

\* a table properties without UNIQUE constraints
insert_allowed_not_null(rows, property_data) ==
    GetOrNone(property_data.price) # None

\* the constraints of table properties an INSERT must meet: price NOT NULL,
\* external_id UNIQUE, property_hash UNIQUE
insert_allowed(rows, property_data) ==
    /\ GetOrNone(property_data.price) # None
    /\ \A r \in rows :
          /\ r.external_id # property_data.external_id
          /\ r.property_hash # generate_property_hash(property_data)

\* the constraints an UPDATE of row property_id must meet
update_allowed(rows, property_id, property_data) ==
    /\ GetOrNone(property_data.price) # None
    /\ \A r \in rows :
          r.id # property_id =>
              r.property_hash # generate_property_hash(property_data)

insert_property(rows, seq, property_data, t) ==
    rows \cup {Row(seq + 1, property_data, t)}

update_property(rows, property_id, property_data, t) ==
    {IF r.id = property_id THEN Updated(r, property_data, t) ELSE r :
        r \in rows}

\* record_price_change with the two prices exchanged
record_price_change_swapped(history, property_id, old_price, new_price, t) ==
    Append(history, [property_id |-> property_id, old_price |-> REAL(new_price),
                     new_price |-> REAL(old_price), change_date |-> t])

\* INSERT INTO price_history (property_id, old_price, new_price)
record_price_change(history, property_id, old_price, new_price, t) ==
    Append(history, [property_id |-> property_id, old_price |-> REAL(old_price),
                     new_price |-> REAL(new_price), change_date |-> t])

mark_property_inactive(rows, external_id, t) ==
    {IF r.external_id = external_id
     THEN [r EXCEPT !.is_active = FALSE, !.date_modified = t] ELSE r :
        r \in rows}

\* SELECT * ... WHERE external_id = ? AND is_active = 1: the rows found
\* (none, or one as external_id is UNIQUE)
get_property_by_external_id(rows, external_id) ==
    {r \in rows : r.external_id = external_id /\ r.is_active}

get_active_external_ids(rows) == {r.external_id : r \in {q \in rows : q.is_active}}

log_monitoring_run(log, found, new, updated, deleted, errors, status, t) ==
    Append(log, [timestamp |-> t, source |-> "combined_apis",
                 properties_found |-> found, new_properties |-> new,
                 updated_properties |-> updated, deleted_properties |-> deleted,
                 errors |-> errors, status |-> status])

-----------------------------------------------------------------------------
(* The monitoring job: PropertyMonitorScheduler.run_monitoring_job calling  *)
(* PropertyMonitor.run_monitoring_cycle.                                   *)

Event(op, ext, ok) == [op |-> op, ext |-> ext, ok |-> ok]

\* the dict of a cycle that found one listing
OneFound == [found |-> 1, new |-> 0, updated |-> 0, deleted |-> 0]

\* the dict run_monitoring_cycle returns when it fetched nothing or failed
NoStats == [found |-> 0, new |-> 0, updated |-> 0, deleted |-> 0]
\* no scheduler: the job is called directly
NoScheduler == [state |-> "none"]

NoBefore == [properties |-> {}, consecutive_errors |-> 0, sched_errors |-> 0,
             price_history |-> 0, monitoring_log |-> 0]

\* the state after construction, the job at position p
Start(p, a) ==
    /\ properties = {}
    /\ seq_properties = 0
    /\ price_history = <<>>
    /\ monitoring_log = <<>>
    /\ consecutive_errors = 0
    /\ sched_errors = 0
    /\ now = 0
    /\ pc = p
    /\ current_properties = <<>>
    /\ idx = 0
    /\ new_count = 0
    /\ updated_count = 0
    /\ deleted_ids = {}
    /\ deleted_count = 0
    /\ stats = NoStats
    /\ cycles = 0
    /\ trace = <<>>
    /\ before = NoBefore
    /\ source_raised = FALSE
    /\ fn_args = a
    /\ fn_result = <<>>
    /\ scheduler = NoScheduler

Init == Start("idle", <<>>)

\* _has_property_changed answering True for every pair
has_property_changed_always(existing, current) == TRUE

\* _has_property_changed: both hashes are recomputed, the one of the stored
\* row from the row as read back
has_property_changed(existing, current) ==
    generate_property_hash(existing) # generate_property_hash(current)

\* is_price_change without the two > 0 tests
is_price_change_any(old_price, new_price) ==
    old_price.n # new_price.n

\* the test of _handle_property_update, on Python numbers
is_price_change(old_price, new_price) ==
    old_price.n # new_price.n /\ old_price.n > 0 /\ new_price.n > 0

\* the test of run_monitoring_cycle for the error notification
escalates(errors) == errors >= ERROR_NOTIFICATION_THRESHOLD

\* what a fetch leaves to the rest of the cycle: the snapshot, and whether
\* a source raised
Outcomes(fetches) ==
    {[fetched |-> fetch_all_properties(f[1], f[2], f[3]),
      raised  |-> any_source_raised(f[1], f[2], f[3])] : f \in fetches}

\* run_monitoring_cycle up to the reset of the counter: the fetch, and the
\* whole cycle when nothing was fetched
FetchProperties(outcomes, max_cycles, max_errors) ==
    /\ pc = "idle"
    /\ \E f \in outcomes, ok \in BOOLEAN :
         /\ source_raised' = f.raised
         /\ before' = [properties |-> properties,
                       consecutive_errors |-> consecutive_errors,
                       sched_errors |-> sched_errors,
                       price_history |-> Len(price_history),
                       monitoring_log |-> Len(monitoring_log)]
         /\ IF f.fetched = <<>>
            THEN /\ consecutive_errors < max_errors
                 /\ consecutive_errors' = consecutive_errors + 1
                 /\ trace' = IF escalates(consecutive_errors + 1)
                             THEN <<Event("notify_error", "", ok)>>
                             ELSE <<>>
                 /\ stats' = NoStats
                 /\ pc' = "returned"
                 /\ UNCHANGED <<locals, cycles, now>>
            ELSE /\ cycles < max_cycles
                 /\ cycles' = cycles + 1
                 /\ now' = now + 1
                 /\ consecutive_errors' = 0
                 /\ current_properties' = f.fetched
                 /\ idx' = 1
                 /\ trace' = <<>>
                 /\ pc' = "process"
                 /\ UNCHANGED <<new_count, updated_count, deleted_ids,
                                deleted_count, stats>>
    /\ UNCHANGED <<store, sched_errors, fn_args, scheduler, fn_result>>

\* _handle_new_property sending the notification again when it failed
HandleNewProperty_twice(property_data, ok) ==
    IF insert_allowed(properties, property_data)
    THEN /\ properties' = insert_property(properties, seq_properties,
                                          property_data, now)
         /\ seq_properties' = seq_properties + 1
         /\ trace' = trace \o <<Event("insert", property_data.external_id, TRUE),
                                Event("notify_new", property_data.external_id, ok)>>
                            \o (IF ok THEN <<>>
                                ELSE <<Event("notify_new",
                                             property_data.external_id, TRUE)>>)
         /\ UNCHANGED price_history
    ELSE UNCHANGED <<properties, seq_properties, price_history, trace>>

\* _handle_new_property undoing its INSERT when the notification failed
HandleNewProperty_undone(property_data, ok) ==
    IF insert_allowed(properties, property_data)
    THEN /\ properties' = IF ok THEN insert_property(properties, seq_properties,
                                                     property_data, now)
                          ELSE properties
         /\ seq_properties' = IF ok THEN seq_properties + 1 ELSE seq_properties
         /\ trace' = trace \o <<Event("insert", property_data.external_id, TRUE),
                                Event("notify_new", property_data.external_id, ok)>>
         /\ UNCHANGED price_history
    ELSE UNCHANGED <<properties, seq_properties, price_history, trace>>

\* _handle_new_property
HandleNewProperty(property_data, ok) ==
    IF insert_allowed(properties, property_data)
    THEN /\ properties' = insert_property(properties, seq_properties,
                                          property_data, now)
         /\ seq_properties' = seq_properties + 1
         /\ trace' = trace \o <<Event("insert", property_data.external_id, TRUE),
                                Event("notify_new", property_data.external_id, ok)>>
         /\ UNCHANGED price_history
    ELSE \* the INSERT raised: logged, nothing written, nothing sent
         UNCHANGED <<properties, seq_properties, price_history, trace>>

\* _handle_property_update sending the price notification before the price
\* transition is recorded
HandlePropertyUpdate_notify_first(existing, updated, ok) ==
    LET property_id == existing.id
        old_price == Get(existing.price, PyInt(0))
        new_price == Get(updated.price, PyInt(0))
    IN /\ properties' = update_property(properties, property_id, updated, now)
       /\ IF is_price_change(old_price, new_price)
          THEN /\ price_history' = record_price_change(price_history,
                                       property_id, old_price, new_price, now)
               /\ trace' = trace \o
                     <<Event("update", updated.external_id, TRUE),
                       Event("notify_price", updated.external_id, ok),
                       Event("price_history", updated.external_id, TRUE)>>
          ELSE /\ trace' = trace \o
                     <<Event("update", updated.external_id, TRUE)>>
               /\ UNCHANGED price_history
       /\ UNCHANGED seq_properties

\* _handle_property_update
HandlePropertyUpdate(existing, updated, ok) ==
    LET property_id == existing.id
        old_price == Get(existing.price, PyInt(0))
        new_price == Get(updated.price, PyInt(0))
    IN IF update_allowed(properties, property_id, updated)
       THEN /\ properties' = update_property(properties, property_id, updated, now)
            /\ IF is_price_change(old_price, new_price)
               THEN /\ price_history' = record_price_change(price_history,
                                            property_id, old_price, new_price, now)
                    /\ trace' = trace \o
                          <<Event("update", updated.external_id, TRUE),
                            Event("price_history", updated.external_id, TRUE),
                            Event("notify_price", updated.external_id, ok)>>
               ELSE /\ trace' = trace \o
                          <<Event("update", updated.external_id, TRUE)>>
                    /\ UNCHANGED price_history
            /\ UNCHANGED seq_properties
       ELSE \* the UPDATE raised: logged, nothing written, nothing sent
            UNCHANGED <<properties, seq_properties, price_history, trace>>

\* one iteration of the loop of _process_properties, and its return after
\* the last one
ProcessProperty ==
    /\ pc = "process"
    /\ LET property_data == current_properties[idx]
           external_id == property_data.external_id
           existing_property == get_property_by_external_id(properties, external_id)
       IN \E ok \in BOOLEAN :
            IF external_id = ""
            THEN UNCHANGED <<properties, seq_properties, price_history, trace,
                             new_count, updated_count>>
            ELSE IF existing_property # {}
            THEN LET existing == CHOOSE r \in existing_property : TRUE IN
                 IF has_property_changed(existing, property_data)
                 THEN /\ updated_count' = updated_count + 1
                      /\ HandlePropertyUpdate(existing, property_data, ok)
                      /\ UNCHANGED new_count
                 ELSE UNCHANGED <<properties, seq_properties, price_history,
                                  trace, new_count, updated_count>>
            ELSE /\ new_count' = new_count + 1
                 /\ HandleNewProperty(property_data, ok)
                 /\ UNCHANGED updated_count
    /\ idx' = idx + 1
    /\ pc' = IF idx = Len(current_properties) THEN "check_deleted" ELSE "process"
    /\ UNCHANGED <<monitoring_log, consecutive_errors, sched_errors, now,
                   current_properties, deleted_ids, deleted_count, stats, cycles,
                   before, source_raised, fn_args, scheduler, fn_result>>

\* deleted_external_ids without the snapshot subtracted
deleted_external_ids_no_snapshot(rows, current) ==
    get_active_external_ids(rows)

\* the ids _check_for_deleted_properties takes for delisted
deleted_external_ids(rows, current) ==
    get_active_external_ids(rows)
    \ {current[i].external_id : i \in {j \in DOMAIN current :
                                          current[j].external_id # ""}}

\* _check_for_deleted_properties up to its loop
CheckForDeletedProperties ==
    /\ pc = "check_deleted"
    /\ deleted_ids' = deleted_external_ids(properties, current_properties)
    /\ deleted_count' = 0
    /\ pc' = "mark_deleted"
    /\ UNCHANGED <<store, consecutive_errors, sched_errors, now,
                   current_properties, idx, new_count, updated_count, stats,
                   cycles, trace, before, source_raised, fn_args, scheduler, fn_result>>

\* one iteration of the loop of _check_for_deleted_properties; a Python set
\* is iterated in no particular order
MarkDeleted ==
    /\ pc = "mark_deleted"
    /\ \E external_id \in deleted_ids, ok \in BOOLEAN :
         LET deleted_property == get_property_by_external_id(properties, external_id)
         IN /\ deleted_ids' = deleted_ids \ {external_id}
            /\ IF deleted_property # {}
               THEN /\ properties' = mark_property_inactive(properties,
                                                            external_id, now)
                    /\ deleted_count' = deleted_count + 1
                    /\ trace' = trace \o
                          <<Event("inactive", external_id, TRUE),
                            Event("notify_deleted", external_id, ok)>>
               ELSE UNCHANGED <<properties, deleted_count, trace>>
    /\ UNCHANGED <<seq_properties, price_history, monitoring_log,
                   consecutive_errors, sched_errors, now, pc, current_properties,
                   idx, new_count, updated_count, stats, cycles, before,
                   source_raised, fn_args, scheduler, fn_result>>

\* the end of a cycle that raised nothing: the run is logged and the
\* statistics returned
LogMonitoringRun ==
    /\ pc = "mark_deleted"
    /\ deleted_ids = {}
    /\ monitoring_log' = log_monitoring_run(monitoring_log,
                             Len(current_properties), new_count, updated_count,
                             deleted_count, "", "success", now)
    /\ stats' = [found |-> Len(current_properties), new |-> new_count,
                 updated |-> updated_count, deleted |-> deleted_count]
    /\ trace' = Append(trace, Event("log", "", TRUE))
    /\ pc' = "returned"
    /\ UNCHANGED <<properties, seq_properties, price_history,
                   consecutive_errors, sched_errors, now, locals, cycles, before,
                   source_raised, fn_args, scheduler, fn_result>>

\* the test of run_monitoring_job for its own error alert
job_alerts(errors) == errors >= MAX_CONSECUTIVE_ERRORS

\* run_monitoring_job after run_monitoring_cycle returned
MonitoringJobEnd ==
    /\ pc = "returned"
    /\ LET errors == IF stats.found > 0 THEN 0 ELSE sched_errors + 1 IN
       /\ sched_errors' = errors
       /\ \E ok \in BOOLEAN :
            trace' = IF job_alerts(errors)
                     THEN Append(trace, Event("notify_error", "", ok))
                     ELSE trace
    /\ pc' = "done"
    /\ UNCHANGED <<store, consecutive_errors, now, locals, stats, cycles, before,
                   source_raised, fn_args, scheduler, fn_result>>

\* the job is over; the scheduler waits for the next trigger
JobDone ==
    /\ pc = "done"
    /\ pc' = "idle"
    /\ current_properties' = <<>>
    /\ idx' = 0
    /\ new_count' = 0
    /\ updated_count' = 0
    /\ deleted_ids' = {}
    /\ deleted_count' = 0
    /\ stats' = NoStats
    /\ trace' = <<>>
    /\ before' = NoBefore
    /\ source_raised' = FALSE
    /\ UNCHANGED <<store, consecutive_errors, sched_errors, now, cycles,
                   fn_args, scheduler, fn_result>>

\* the listings the sources deliver: X at every price and under a changed
\* title, Y at two prices, and a listing without external_id
CycleListings ==
    {Listing("X", "Studio", p) : p \in Prices}
    \cup {Listing("X", "Studio renovated", PyFloat(1200))}
    \cup {Listing("Y", "Studio", p) : p \in {PyFloat(1000), PyFloat(1200)}}
    \cup {Listing("", "Studio", PyFloat(1000))}

\* a source without key delivers what a source that returns nothing
\* delivers, so the cycles are explored with both keys set
CycleOutcomes ==
    Outcomes(Fetches(CycleListings, MaxListings, {<<TRUE, TRUE>>}))

CycleSteps ==
    \/ ProcessProperty
    \/ CheckForDeletedProperties
    \/ MarkDeleted
    \/ LogMonitoringRun
    \/ MonitoringJobEnd
    \/ JobDone

Next ==
    \/ FetchProperties(CycleOutcomes, MaxCycles, MaxEmpty)
    \/ CycleSteps

Spec == Init /\ [][Next]_vars

-----------------------------------------------------------------------------
(* Escalation: the same job over long runs of failing cycles, the sources   *)
(* delivering one kind of listing.                                         *)

EscalationListings ==
    {Listing(e, "Studio", PyFloat(1000)) : e \in Ids}

EscalationOutcomes ==
    Outcomes(Fetches(EscalationListings, MaxListings, {<<TRUE, TRUE>>}))

NextEscalation ==
    \/ FetchProperties(EscalationOutcomes, MaxCycles, MaxErrors)
    \/ CycleSteps

SpecEscalation == Init /\ [][NextEscalation]_vars

-----------------------------------------------------------------------------
(* Store failures: the same job when a statement of the store can raise     *)
(* sqlite3.Error (database locked, disk error).                            *)

\* get_property_by_external_id raises in _process_properties, which has no
\* try block: the except branch of run_monitoring_cycle runs.  In
\* monitoring_log an errors of "" stands for NULL.
ProcessPropertyRaises ==
    /\ pc = "process"
    /\ current_properties[idx].external_id # ""
    /\ consecutive_errors' = consecutive_errors + 1
    /\ \E ok \in BOOLEAN :
         trace' = trace
                  \o <<Event("lookup", current_properties[idx].external_id, FALSE),
                       Event("except", "", TRUE)>>
                  \o (IF escalates(consecutive_errors + 1)
                      THEN <<Event("notify_error", "", ok)>> ELSE <<>>)
                  \o <<Event("log", "", TRUE)>>
    /\ monitoring_log' = log_monitoring_run(monitoring_log, 0, 0, 0, 0,
                                            "database is locked", "failed", now)
    /\ stats' = NoStats
    /\ pc' = "returned"
    /\ UNCHANGED <<properties, seq_properties, price_history, sched_errors, now,
                   locals, cycles, before, source_raised, fn_args, scheduler, fn_result>>

\* the same when log_monitoring_run raises in the except branch too: the
\* exception leaves run_monitoring_cycle and the except branch of
\* run_monitoring_job runs
ProcessPropertyRaisesLogRaises ==
    /\ pc = "process"
    /\ current_properties[idx].external_id # ""
    /\ consecutive_errors' = consecutive_errors + 1
    /\ sched_errors' = sched_errors + 1
    /\ \E ok, job_ok \in BOOLEAN :
         trace' = trace
                  \o <<Event("lookup", current_properties[idx].external_id, FALSE),
                       Event("except", "", TRUE)>>
                  \o (IF escalates(consecutive_errors + 1)
                      THEN <<Event("notify_error", "", ok)>> ELSE <<>>)
                  \o <<Event("log", "", FALSE), Event("raise", "", TRUE),
                       Event("notify_error", "", job_ok)>>
    /\ stats' = NoStats
    /\ pc' = "done"
    /\ UNCHANGED <<store, now, locals, cycles, before, source_raised, fn_args, scheduler,
                   fn_result>>

\* the end of an iteration of the loop of _process_properties
NextIteration ==
    /\ idx' = idx + 1
    /\ pc' = IF idx = Len(current_properties) THEN "check_deleted" ELSE "process"
    /\ UNCHANGED <<monitoring_log, consecutive_errors, sched_errors, now,
                   current_properties, deleted_ids, deleted_count, stats, cycles,
                   before, source_raised, fn_args, scheduler, fn_result>>

\* insert_property raises in _handle_new_property, which logs the error
InsertRaises ==
    /\ pc = "process"
    /\ LET property_data == current_properties[idx] IN
       /\ property_data.external_id # ""
       /\ get_property_by_external_id(properties, property_data.external_id) = {}
       /\ new_count' = new_count + 1
       /\ trace' = Append(trace, Event("insert", property_data.external_id, FALSE))
    /\ UNCHANGED <<properties, seq_properties, price_history, updated_count>>
    /\ NextIteration

\* update_property raises in _handle_property_update, which logs the error
UpdateRaises ==
    /\ pc = "process"
    /\ LET property_data == current_properties[idx] IN
       /\ property_data.external_id # ""
       /\ \E existing \in get_property_by_external_id(properties,
                                                     property_data.external_id) :
            has_property_changed(existing, property_data)
       /\ updated_count' = updated_count + 1
       /\ trace' = Append(trace, Event("update", property_data.external_id, FALSE))
    /\ UNCHANGED <<properties, seq_properties, price_history, new_count>>
    /\ NextIteration

\* record_price_change raises in _handle_property_update after
\* update_property has committed; the error is logged, nothing is sent
RecordPriceChangeRaises ==
    /\ pc = "process"
    /\ LET property_data == current_properties[idx] IN
       /\ property_data.external_id # ""
       /\ \E existing \in get_property_by_external_id(properties,
                                                     property_data.external_id) :
            /\ has_property_changed(existing, property_data)
            /\ update_allowed(properties, existing.id, property_data)
            /\ is_price_change(Get(existing.price, PyInt(0)),
                               Get(property_data.price, PyInt(0)))
            /\ properties' = update_property(properties, existing.id,
                                             property_data, now)
       /\ updated_count' = updated_count + 1
       /\ trace' = trace \o
             <<Event("update", property_data.external_id, TRUE),
               Event("price_history", property_data.external_id, FALSE)>>
    /\ UNCHANGED <<seq_properties, price_history, new_count>>
    /\ NextIteration

\* get_property_by_external_id or mark_property_inactive raises in the loop
\* of _check_for_deleted_properties: its except branch returns 0
MarkDeletedRaises ==
    /\ pc = "mark_deleted"
    /\ \E external_id \in deleted_ids :
         trace' = Append(trace, Event("inactive", external_id, FALSE))
    /\ deleted_ids' = {}
    /\ deleted_count' = 0
    /\ UNCHANGED <<store, consecutive_errors, sched_errors, now, pc,
                   current_properties, idx, new_count, updated_count, stats,
                   cycles, before, source_raised, fn_args, scheduler, fn_result>>

\* the listings fetched while the store can fail or is read by another job
FaultListings ==
    {Listing("X", "Studio", PyFloat(1000)), Listing("X", "Studio", PyFloat(1200)),
     Listing("Y", "Studio", PyFloat(1000))}

FaultOutcomes ==
    Outcomes(Fetches(FaultListings, MaxListings, {<<TRUE, TRUE>>}))

NextFaults ==
    \/ FetchProperties(FaultOutcomes, MaxFaultCycles, MaxEmpty)
    \/ CycleSteps
    \/ ProcessPropertyRaises
    \/ ProcessPropertyRaisesLogRaises
    \/ InsertRaises
    \/ UpdateRaises
    \/ RecordPriceChangeRaises
    \/ MarkDeletedRaises

SpecFaults == Init /\ [][NextFaults]_vars

-----------------------------------------------------------------------------
(* The status reader: the status-report and daily-summary jobs run on       *)
(* another thread of the scheduler's pool than the monitoring job, and      *)
(* every statement of the store commits on its own connection.             *)

\* get_monitoring_stats: the modelled cycles lie within the 24 hours of
\* get_properties_by_date_range
get_monitoring_stats(rows, history, log) ==
    [total_properties    |-> Cardinality({r \in rows : r.is_active}),
     last_check          |-> IF log = <<>>
                             THEN [never |-> TRUE, timestamp |-> 0]
                             ELSE [never |-> FALSE,
                                   timestamp |-> log[Len(log)].timestamp],
     new_today           |-> Cardinality({r \in rows : r.is_active}),
     price_changes_today |->
         Cardinality({i \in DOMAIN history :
                         \E r \in rows : /\ r.id = history[i].property_id
                                         /\ r.is_active}),
     deletions_today     |-> Cardinality({r \in rows : ~r.is_active})]

\* send_status_report reads the store while a cycle is in progress; the
\* reads are taken as one
SendStatusReport ==
    /\ pc \in {"process", "check_deleted", "mark_deleted"}
    /\ fn_result' = <<[cycle |-> cycles,
                       stats |-> get_monitoring_stats(properties, price_history,
                                                      monitoring_log)]>>
    /\ UNCHANGED <<store, consecutive_errors, sched_errors, now, pc, locals,
                   stats, cycles, trace, before, source_raised, fn_args, scheduler>>

NextReader ==
    \/ FetchProperties(FaultOutcomes, MaxFaultCycles, MaxEmpty)
    \/ CycleSteps
    \/ SendStatusReport

SpecReader == Init /\ [][NextReader]_vars

-----------------------------------------------------------------------------
(* The fetch aggregator alone: fetch_all_properties applied to every fetch  *)
(* of at most MaxFetched listings.                                         *)

FetchListings ==
    {Listing(e, "Studio", p) : e \in Ids \cup {""},
                               p \in {PyFloat(1000), PyFloat(1200)}}

InitFetch ==
    \E f \in Fetches(FetchListings, MaxFetched, BOOLEAN \X BOOLEAN) :
        Start("call", f)

CallFetchAllProperties ==
    /\ pc = "call"
    /\ fn_result' = fetch_all_properties(fn_args[1], fn_args[2], fn_args[3])
    /\ trace' = sources_called(fn_args[1], fn_args[2], fn_args[3])
    /\ pc' = "result"
    /\ UNCHANGED <<store, consecutive_errors, sched_errors, now, locals, stats,
                   cycles, before, source_raised, fn_args, scheduler>>

SpecFetch == InitFetch /\ [][CallFetchAllProperties]_vars

-----------------------------------------------------------------------------
(* generate_property_hash alone.  A Python dict is given as the sequence of *)
(* its items in insertion order; dict.get reads a key whatever its place.   *)

Keys == {"external_id", "title", "location", "price", "bedrooms", "bathrooms",
         "size_sqft", "description", "url", "source", "raw_data"}

\* the dict with the items given: the value of a key is the one of its item,
\* and a key without item is missing
DictOf(items) ==
    [key \in Keys |->
        IF \E i \in DOMAIN items : items[i][1] = key
        THEN items[CHOOSE i \in DOMAIN items : items[i][1] = key][2]
        ELSE Missing]

\* insertion orders of the keys of a listing
KeyOrders ==
    {<<"external_id", "title", "location", "price", "bedrooms", "bathrooms",
       "size_sqft", "description", "url", "source", "raw_data">>,
     <<"raw_data", "source", "url", "description", "size_sqft", "bathrooms",
       "bedrooms", "price", "location", "title", "external_id">>,
     <<"price", "url", "title", "raw_data", "external_id", "size_sqft",
       "description", "bedrooms", "source", "location", "bathrooms">>}

\* the items of listing l in insertion order o, the keys of `without` left out
ItemsOf(l, o, without) ==
    LET kept == SelectSeq(o, LAMBDA key : key \notin without)
    IN [i \in DOMAIN kept |-> <<kept[i], l[kept[i]]>>]

HashPrices == {PyInt(0), PyInt(1000), PyFloat(1000)}

\* the dicts given to generate_property_hash: one id, the price an int or a
\* float or absent, the fields that are not hashed varying
HashInputs ==
    {ItemsOf([Listing("X", t, p) EXCEPT !.description = d, !.url = u,
                                        !.raw_data = r], o, w) :
        t \in Titles, p \in HashPrices, d \in {"d", "e"}, u \in {"u", "v"},
        r \in {"r", "s"}, o \in KeyOrders, w \in {{}, {"price"}}}

InitHash ==
    \E a, b \in HashInputs : Start("call_hash", <<a, b>>)

\* generate_property_hash called on each of the two dicts
CallGeneratePropertyHash ==
    /\ pc = "call_hash"
    /\ fn_result' = <<generate_property_hash(DictOf(fn_args[1])),
                      generate_property_hash(DictOf(fn_args[2]))>>
    /\ pc' = "result_hash"
    /\ UNCHANGED <<store, consecutive_errors, sched_errors, now, locals, stats,
                   cycles, trace, before, source_raised, fn_args, scheduler>>

SpecHash == InitHash /\ [][CallGeneratePropertyHash]_vars

-----------------------------------------------------------------------------
(* The classification alone: what _process_properties and                  *)
(* _check_for_deleted_properties decide from the store and the snapshot,   *)
(* read twice from a store nothing writes in between.                      *)

\* the ids _process_properties hands to _handle_new_property
new_external_ids(rows, current) ==
    {current[i].external_id : i \in {j \in DOMAIN current :
        /\ current[j].external_id # ""
        /\ get_property_by_external_id(rows, current[j].external_id) = {}}}

\* the ids _process_properties hands to _handle_property_update
updated_external_ids(rows, current) ==
    {current[i].external_id : i \in {j \in DOMAIN current :
        /\ current[j].external_id # ""
        /\ \E existing \in get_property_by_external_id(rows,
                                                       current[j].external_id) :
              has_property_changed(existing, current[j])}}

classification(rows, current) ==
    [new     |-> new_external_ids(rows, current),
     updated |-> updated_external_ids(rows, current),
     deleted |-> deleted_external_ids(rows, current)]

\* the stores a run of cycles can leave: for every id no row, or the row of
\* one of its listings, active or marked inactive
StoredRows(e, id) ==
    {{}} \cup {{[Row(id, l, 0) EXCEPT !.is_active = a]} :
                  l \in {c \in CycleListings : c.external_id = e},
                  a \in BOOLEAN}

Stores == {x \cup y : x \in StoredRows("X", 1), y \in StoredRows("Y", 2)}

\* the snapshots a fetch can return
Snapshots == {o.fetched : o \in CycleOutcomes}

InitClassify ==
    /\ properties \in Stores
    /\ seq_properties = 2
    /\ price_history = <<>>
    /\ monitoring_log = <<>>
    /\ consecutive_errors = 0
    /\ sched_errors = 0
    /\ now = 1
    /\ pc = "classify"
    /\ current_properties \in Snapshots
    /\ idx = 0
    /\ new_count = 0
    /\ updated_count = 0
    /\ deleted_ids = {}
    /\ deleted_count = 0
    /\ stats = NoStats
    /\ cycles = 0
    /\ trace = <<>>
    /\ before = NoBefore
    /\ source_raised = FALSE
    /\ fn_args = <<>>
    /\ fn_result = <<>>
    /\ scheduler = NoScheduler

\* Classify_applying: the snapshot is classified and its new listings are
\* inserted at once
Classify_applying ==
    /\ pc \in {"classify", "classify_again"}
    /\ fn_result' = Append(fn_result,
                           classification(properties, current_properties))
    /\ properties' = properties \cup
          {Row(2 + i, current_properties[i], now) :
              i \in {j \in DOMAIN current_properties :
                        current_properties[j].external_id
                            \in new_external_ids(properties, current_properties)}}
    /\ pc' = IF pc = "classify" THEN "classify_again" ELSE "classified"
    /\ UNCHANGED <<seq_properties, price_history, monitoring_log,
                   consecutive_errors, sched_errors, now, locals, stats, cycles,
                   trace, before, source_raised, fn_args, scheduler>>

\* the snapshot is classified: the store is read, not written
Classify ==
    /\ pc \in {"classify", "classify_again"}
    /\ fn_result' = Append(fn_result,
                           classification(properties, current_properties))
    /\ pc' = IF pc = "classify" THEN "classify_again" ELSE "classified"
    /\ UNCHANGED <<store, consecutive_errors, sched_errors, now, locals, stats,
                   cycles, trace, before, source_raised, fn_args, scheduler>>

SpecClassify == InitClassify /\ [][Classify]_vars

-----------------------------------------------------------------------------
(* The scheduler alone: PropertyMonitorScheduler.start and the job          *)
(* 'property_monitoring' of the BlockingScheduler.  Time is in minutes.    *)
(* The cycle a job instance runs is opaque here: it is in progress from    *)
(* the call of run_monitoring_job to its return.                           *)

\* a job instance never takes the place of a running one
can_submit_always(instances) == TRUE

\* BaseExecutor.submit_job refuses the job at max_instances
can_submit(instances) == instances < max_instances

\* the fire times of the interval trigger from next_run_time up to t
RECURSIVE get_run_times(_, _)
get_run_times(next_run_time, t) ==
    IF next_run_time > t THEN <<>>
    ELSE <<next_run_time>>
            \o get_run_times(next_run_time + MONITORING_INTERVAL_MINUTES, t)

\* coalesce = True keeps the last of the fire times that are due
coalesced(run_times) ==
    IF coalesce /\ run_times # <<>>
    THEN <<run_times[Len(run_times)]>> ELSE run_times

Instance(run_times) == [run_times |-> run_times, executing |-> FALSE]

Without(jobs, i) == SubSeq(jobs, 1, i - 1) \o SubSeq(jobs, i + 1, Len(jobs))

\* the executions of run_monitoring_job in progress, on the main thread and
\* on the threads of the pool
in_progress ==
    (IF scheduler.main = "initial_job" THEN 1 ELSE 0)
    + Cardinality({i \in DOMAIN scheduler.jobs : scheduler.jobs[i].executing})

InitScheduler ==
    /\ properties = {}
    /\ seq_properties = 0
    /\ price_history = <<>>
    /\ monitoring_log = <<>>
    /\ consecutive_errors = 0
    /\ sched_errors = 0
    /\ now = 0
    /\ pc = "scheduler"
    /\ current_properties = <<>>
    /\ idx = 0
    /\ new_count = 0
    /\ updated_count = 0
    /\ deleted_ids = {}
    /\ deleted_count = 0
    /\ stats = NoStats
    /\ cycles = 0
    /\ trace = <<>>
    /\ before = NoBefore
    /\ source_raised = FALSE
    /\ fn_args = <<>>
    /\ fn_result = <<>>
    /\ scheduler = [main |-> "start", state |-> "stopped", next_run_time |-> 0,
                    jobs |-> <<>>, last |-> "", dropped |-> 0]

NotScheduler == <<properties, seq_properties, price_history, monitoring_log,
                  consecutive_errors, sched_errors, pc, current_properties, idx,
                  new_count, updated_count, deleted_ids, deleted_count, stats,
                  cycles, trace, before, source_raised, fn_args, fn_result>>

\* start(): the system test, setup_jobs, and the call of the initial job
SchedulerStart ==
    /\ scheduler.main = "start"
    /\ \E ok \in BOOLEAN :
          scheduler' = [scheduler EXCEPT
                           !.main = IF ok THEN "initial_job" ELSE "aborted"]
    /\ UNCHANGED <<NotScheduler, now>>

\* start(): the initial job has returned and scheduler.start() schedules
\* the pending jobs, the first fire time one interval from now
InitialJobReturns ==
    /\ scheduler.main = "initial_job"
    /\ scheduler' = [scheduler EXCEPT
                        !.main = "blocking",
                        !.state = "running",
                        !.next_run_time = now + MONITORING_INTERVAL_MINUTES]
    /\ UNCHANGED <<NotScheduler, now>>

\* time passes, also while the scheduler should have woken up
Tick ==
    /\ pc = "scheduler"
    /\ now + misfire_grace_time <= MaxMinutes
    /\ now' = now + misfire_grace_time
    /\ UNCHANGED <<NotScheduler, scheduler>>

\* BaseScheduler._process_jobs for the job that is due
ProcessJobs ==
    /\ scheduler.state = "running"
    /\ scheduler.next_run_time <= now
    /\ LET due == get_run_times(scheduler.next_run_time, now)
           run_times == coalesced(due)
           submitted == can_submit(Len(scheduler.jobs))
       IN scheduler' = [scheduler EXCEPT
             !.jobs = IF submitted THEN Append(@, Instance(run_times)) ELSE @,
             !.last = IF submitted THEN "submitted" ELSE "skipped",
             !.dropped = Len(due) - Len(run_times),
             !.next_run_time =
                 run_times[Len(run_times)] + MONITORING_INTERVAL_MINUTES]
    /\ UNCHANGED <<NotScheduler, now>>

\* executors.base.run_job: a thread of the pool takes the next fire time of
\* its instance, and calls run_monitoring_job unless the fire time is older
\* than misfire_grace_time
RunJob(i) ==
    /\ ~scheduler.jobs[i].executing
    /\ scheduler.jobs[i].run_times # <<>>
    /\ LET run_times == scheduler.jobs[i].run_times
           missed == now - Head(run_times) > misfire_grace_time
       IN scheduler' = [scheduler EXCEPT
             !.jobs = IF missed /\ Len(run_times) = 1
                      THEN Without(@, i)
                      ELSE [@ EXCEPT ![i] = [run_times |-> Tail(run_times),
                                             executing |-> ~missed]],
             !.last = IF missed THEN "missed" ELSE "run"]
    /\ UNCHANGED <<NotScheduler, now>>

\* run_monitoring_job returns on a thread of the pool; the instance is
\* released after its last fire time
JobReturns(i) ==
    /\ scheduler.jobs[i].executing
    /\ scheduler' = [scheduler EXCEPT
          !.jobs = IF scheduler.jobs[i].run_times = <<>>
                   THEN Without(@, i)
                   ELSE [@ EXCEPT ![i].executing = FALSE],
          !.last = "returned"]
    /\ UNCHANGED <<NotScheduler, now>>

NextScheduler ==
    \/ SchedulerStart
    \/ InitialJobReturns
    \/ Tick
    \/ ProcessJobs
    \/ \E i \in DOMAIN scheduler.jobs : RunJob(i)
    \/ \E i \in DOMAIN scheduler.jobs : JobReturns(i)

SpecScheduler == InitScheduler /\ [][NextScheduler]_vars

-----------------------------------------------------------------------------
(* The cleanup job: PropertyMonitorScheduler.cleanup_old_data, run weekly   *)
(* on a thread of the scheduler's pool.  The clock counts days here: a     *)
(* cycle that writes the store takes place a day after the one before,     *)
(* and a month can pass between two jobs.                                  *)

\* the DELETE on table properties without its test of is_active
cleanup_properties_any(rows, t) ==
    {r \in rows : ~(r.date_modified < t - INACTIVE_RETENTION_DAYS)}

\* DELETE FROM properties WHERE is_active = 0
\*   AND date_modified < datetime('now', '-30 days'): the rows left
cleanup_properties(rows, t) ==
    {r \in rows :
        ~(~r.is_active /\ r.date_modified < t - INACTIVE_RETENTION_DAYS)}

\* DELETE FROM monitoring_log WHERE timestamp < datetime('now', '-30 days')
cleanup_monitoring_log(log, t) ==
    SelectSeq(log, LAMBDA r : ~(r.timestamp < t - LOG_RETENTION_DAYS))

\* DELETE FROM price_history
\*   WHERE change_date < datetime('now', '-90 days')
cleanup_price_history(history, t) ==
    SelectSeq(history,
              LAMBDA r : ~(r.change_date < t - PRICE_HISTORY_RETENTION_DAYS))

\* cleanup_old_data: the three DELETEs, committed together; fn_result is
\* the message it sends
CleanupOldData ==
    /\ monitoring_log' = cleanup_monitoring_log(monitoring_log, now)
    /\ price_history' = cleanup_price_history(price_history, now)
    /\ properties' = cleanup_properties(properties, now)
    /\ fn_result' =
          <<[at |-> now,
             logs_deleted |-> Len(monitoring_log) - Len(monitoring_log'),
             price_history_deleted |-> Len(price_history) - Len(price_history'),
             inactive_deleted |->
                 Cardinality(properties) - Cardinality(properties')]>>
    /\ UNCHANGED <<seq_properties, consecutive_errors, sched_errors, now, pc,
                   locals, stats, cycles, trace, before, source_raised, fn_args,
                   scheduler>>

\* a month passes between two jobs
DaysPass ==
    /\ pc = "idle"
    /\ now + LOG_RETENTION_DAYS <= MaxDays
    /\ now' = now + LOG_RETENTION_DAYS
    /\ UNCHANGED <<store, consecutive_errors, sched_errors, pc, locals, stats,
                   cycles, trace, before, source_raised, fn_args, fn_result,
                   scheduler>>

\* the snapshots fetched while the cleanup job is explored: one listing
\* alone, at either price, or two
CleanupSnapshots ==
    {<<l>> : l \in FaultListings}
    \cup {<<Listing("X", "Studio", p), Listing("Y", "Studio", PyFloat(1000))>> :
             p \in {PyFloat(1000), PyFloat(1200)}}

CleanupOutcomes == {[fetched |-> f, raised |-> FALSE] : f \in CleanupSnapshots}

NextCleanup ==
    \/ FetchProperties(CleanupOutcomes, MaxFaultCycles, MaxEmpty)
    \/ CycleSteps
    \/ DaysPass
    \/ CleanupOldData

SpecCleanup == Init /\ [][NextCleanup]_vars

\* the cleanup job after three cycles of one listing each, so that a row
\* with a price transition can be delisted and outlive its retention
IntegrityOutcomes ==
    {[fetched |-> <<l>>, raised |-> FALSE] : l \in FaultListings}

NextIntegrity ==
    \/ FetchProperties(IntegrityOutcomes, MaxCycles, MaxEmpty)
    \/ CycleSteps
    \/ DaysPass
    \/ CleanupOldData

SpecIntegrity == Init /\ [][NextIntegrity]_vars

-----------------------------------------------------------------------------
(* The store alone: insert_property, update_property and                   *)
(* mark_property_inactive called directly with any arguments.  fn_args is  *)
(* the call, fn_result whether it raised (the statement broke a            *)
(* constraint) and the truth of what it returned, before.properties the    *)
(* table before the call.                                                  *)

\* the number of store calls explored
MaxCalls == 4

StoreListings == FaultListings \cup {Listing("X", "Studio", PyInt(0))}

Returned(value) == [raised |-> FALSE, returned |-> value]
Raised == [raised |-> TRUE, returned |-> FALSE]

\* cursor.rowcount > 0 of the UPDATE ... WHERE id = ?
update_property_returns(rows, property_id) ==
    \E r \in rows : r.id = property_id

\* cursor.rowcount > 0 of the UPDATE ... WHERE external_id = ?
mark_property_inactive_returns(rows, external_id) ==
    \E r \in rows : r.external_id = external_id

StoreCall(args, rows, seq, result) ==
    /\ pc = "store"
    /\ now < MaxCalls
    /\ now' = now + 1
    /\ fn_args' = args
    /\ fn_result' = <<result>>
    /\ before' = [NoBefore EXCEPT !.properties = properties]
    /\ properties' = rows
    /\ seq_properties' = seq
    /\ UNCHANGED <<price_history, monitoring_log, consecutive_errors,
                   sched_errors, pc, locals, stats, cycles, trace,
                   source_raised, scheduler>>

CallInsertProperty ==
    \E property_data \in StoreListings :
        IF insert_allowed(properties, property_data)
        THEN StoreCall(<<"insert_property", property_data>>,
                       insert_property(properties, seq_properties,
                                       property_data, now + 1),
                       seq_properties + 1, Returned(TRUE))
        ELSE StoreCall(<<"insert_property", property_data>>, properties,
                       seq_properties, Raised)

CallUpdateProperty ==
    \E property_id \in 1..MaxCalls, property_data \in StoreListings :
        IF update_allowed(properties, property_id, property_data)
           \/ ~update_property_returns(properties, property_id)
        THEN StoreCall(<<"update_property", property_id, property_data>>,
                       update_property(properties, property_id, property_data,
                                       now + 1),
                       seq_properties,
                       Returned(update_property_returns(properties,
                                                        property_id)))
        ELSE StoreCall(<<"update_property", property_id, property_data>>,
                       properties, seq_properties, Raised)

CallMarkPropertyInactive ==
    \E external_id \in Ids :
        StoreCall(<<"mark_property_inactive", external_id>>,
                  mark_property_inactive(properties, external_id, now + 1),
                  seq_properties,
                  Returned(mark_property_inactive_returns(properties,
                                                          external_id)))

NextStore ==
    \/ CallInsertProperty
    \/ CallUpdateProperty
    \/ CallMarkPropertyInactive

SpecStore == Start("store", <<>>) /\ [][NextStore]_vars

-----------------------------------------------------------------------------
(* _make_request_with_retry alone.  idx is the loop variable attempt, now  *)
(* the seconds slept, trace the outcome of every session.get, fn_result    *)
(* what the call returned or raised.                                       *)

MAX_RETRIES == 3
API_RATE_LIMIT_DELAY == 1

\* the bodies response.json() can return
Responses == {"data", "no data", "items", "empty"}

\* the subclasses of requests.exceptions.RequestException the attempt can
\* raise: from session.get, raise_for_status and response.json()
RequestExceptions == {"Timeout", "ConnectionError", "HTTPError",
                      "JSONDecodeError"}

Urls == {"status_url", "results_url"}

InitRetry == \E url \in Urls : Start("attempt", <<url>>)

\* only pc, idx, now, trace and fn_result change
RetryFrame ==
    UNCHANGED <<store, consecutive_errors, sched_errors, current_properties,
                new_count, updated_count, deleted_ids, deleted_count, stats,
                cycles, before, source_raised, fn_args, scheduler>>

\* the attempt succeeds: the body is returned
RequestReturns ==
    /\ pc = "attempt"
    /\ idx < MAX_RETRIES
    /\ \E response \in Responses :
         /\ trace' = Append(trace, Event("get", response, TRUE))
         /\ fn_result' = <<[raised |-> FALSE, value |-> response]>>
    /\ now' = now + API_RATE_LIMIT_DELAY
    /\ pc' = "returned"
    /\ idx' = idx
    /\ RetryFrame

\* the attempt raises a RequestException: the last attempt re-raises it,
\* the others go on to the backoff
RequestRaises ==
    /\ pc = "attempt"
    /\ idx < MAX_RETRIES
    /\ \E e \in RequestExceptions :
         /\ trace' = Append(trace, Event("get", e, FALSE))
         /\ fn_result' = IF idx = MAX_RETRIES - 1
                         THEN <<[raised |-> TRUE, value |-> e]>>
                         ELSE fn_result
    /\ now' = now + API_RATE_LIMIT_DELAY
    /\ pc' = IF idx = MAX_RETRIES - 1 THEN "raised" ELSE "backoff"
    /\ idx' = idx
    /\ RetryFrame

\* session.get is called without timeout=, and requests does not read the
\* attribute session.timeout set in __init__: when the server sends
\* nothing the call waits without bound
RequestBlocks ==
    /\ pc = "attempt"
    /\ idx < MAX_RETRIES
    /\ trace' = Append(trace, Event("get", "", FALSE))
    /\ now' = now + API_RATE_LIMIT_DELAY
    /\ pc' = "blocked"
    /\ UNCHANGED <<idx, fn_result>>
    /\ RetryFrame

\* time.sleep(2 ** attempt) and the next iteration
Backoff ==
    /\ pc = "backoff"
    /\ now' = now + 2 ^ idx
    /\ idx' = idx + 1
    /\ pc' = "attempt"
    /\ UNCHANGED <<trace, fn_result>>
    /\ RetryFrame

NextRetry ==
    \/ RequestReturns
    \/ RequestRaises
    \/ RequestBlocks
    \/ Backoff

\* the thread of the call is always scheduled
SpecRetry == InitRetry /\ [][NextRetry]_vars /\ WF_vars(NextRetry)

-----------------------------------------------------------------------------
(* _wait_for_scraper_results alone.  fn_args is <<run_id,                  *)
(* max_wait_minutes>>, idx the loop variable check, now the seconds slept, *)
(* trace the events of the last check, current_properties the dataset      *)
(* items of the last results request, fn_result the list returned.  Each   *)
(* _make_request_with_retry is taken as a call that returns a body or      *)
(* raises.                                                                 *)

\* the largest max_wait_minutes explored, and the largest dataset
MaxWaitMinutes == 1
MaxItems == 2

\* two of the five TARGET_LOCATIONS
TARGET_LOCATIONS == {"Ras Al Khor Third", "Ras Al Khor Ind Third"}

\* the texts a scraped item can have as location
LocationTexts ==
    {"Ras Al Khor Third, Dubai", "RAS AL KHOR IND THIRD", "Dubai Marina"}

\* str.lower() on the texts above
lower(text) ==
    CASE text = "Ras Al Khor Third"        -> "ras al khor third"
      [] text = "Ras Al Khor Ind Third"    -> "ras al khor ind third"
      [] text = "Ras Al Khor Third, Dubai" -> "ras al khor third, dubai"
      [] text = "RAS AL KHOR IND THIRD"    -> "ras al khor ind third"
      [] text = "Dubai Marina"             -> "dubai marina"
      [] OTHER                             -> text

\* a in b, for the lower-case texts above
substring(a, b) ==
    \/ a = b
    \/ <<a, b>> \in {<<"ras al khor third", "ras al khor third, dubai">>}

PyStr(text) == [k |-> "str", s |-> text]
PyNone == [k |-> "null", s |-> ""]

\* the dataset items: the location of an item is a text or JSON null
Items ==
    {[id |-> "1", location |-> l] :
        l \in {PyStr(text) : text \in LocationTexts} \cup {PyNone}}

\* _normalize_apify_property: the location is passed on as it came
normalize_apify_property(item) ==
    [external_id |-> item.id, location |-> item.location,
     source |-> "apify_propertyfinder"]

\* _is_target_location raises AttributeError when location has no lower()
is_target_location_raises(location) == location.k # "str"

is_target_location(location) ==
    \E target \in TARGET_LOCATIONS :
        substring(lower(target), lower(location.s))

\* the loop over results_response: every item is normalized and tested
target_properties_raises(results_response) ==
    \E i \in DOMAIN results_response :
        is_target_location_raises(
            normalize_apify_property(results_response[i]).location)

RECURSIVE target_properties(_)
target_properties(results_response) ==
    IF results_response = <<>> THEN <<>>
    ELSE LET property_data == normalize_apify_property(Head(results_response))
         IN (IF is_target_location(property_data.location)
             THEN <<property_data>> ELSE <<>>)
            \o target_properties(Tail(results_response))

max_checks == fn_args[2] * 6

InitWait ==
    \E max_wait_minutes \in 1..MaxWaitMinutes :
        Start("check", <<"run", max_wait_minutes>>)

WaitFrame ==
    UNCHANGED <<store, consecutive_errors, sched_errors, new_count,
                updated_count, deleted_ids, deleted_count, stats, cycles,
                before, source_raised, fn_args, scheduler>>

\* one iteration that goes on to the next check after sleeping seconds
NextCheck(events, results, seconds) ==
    /\ pc = "check"
    /\ idx < max_checks
    /\ trace' = events
    /\ current_properties' = results
    /\ now' = now + seconds
    /\ idx' = idx + 1
    /\ UNCHANGED <<pc, fn_result>>
    /\ WaitFrame

\* one iteration that returns
Return(events, results, properties_found) ==
    /\ pc = "check"
    /\ idx < max_checks
    /\ trace' = events
    /\ current_properties' = results
    /\ fn_result' = <<properties_found>>
    /\ pc' = "returned"
    /\ UNCHANGED <<now, idx>>
    /\ WaitFrame

\* the status request raised after its retries: except branch, sleep(10)
StatusRequestRaises ==
    NextCheck(<<Event("status", "RequestException", FALSE)>>, <<>>, 10)

\* no body, or a body without "data": continue, without sleeping
StatusWithoutData ==
    NextCheck(<<Event("status", "no data", TRUE)>>, <<>>, 0)

\* "data" without "status": KeyError, except branch, sleep(10)
StatusMalformed ==
    NextCheck(<<Event("status", "KeyError", FALSE)>>, <<>>, 10)

\* a status that is neither SUCCEEDED nor a failure: sleep(10)
StatusRunning ==
    \E status \in {"READY", "RUNNING"} :
        NextCheck(<<Event("status", status, TRUE)>>, <<>>, 10)

StatusFailed ==
    \E status \in {"FAILED", "ABORTED", "TIMED-OUT"} :
        Return(<<Event("status", status, TRUE)>>, <<>>, <<>>)

\* SUCCEEDED and the results request raised: except branch, sleep(10)
ResultsRequestRaises ==
    NextCheck(<<Event("status", "SUCCEEDED", TRUE),
                Event("results", "RequestException", FALSE)>>, <<>>, 10)

\* SUCCEEDED and the dataset: an empty one is falsy and the loop sleeps and
\* checks again; an item whose location has no lower() raises out of the
\* loop over the items into the except branch; otherwise the target
\* listings are returned
ResultsReturned ==
    \E results_response \in SeqsUpTo(Items, MaxItems) :
        LET events == <<Event("status", "SUCCEEDED", TRUE),
                        Event("results", "items", TRUE)>>
        IN IF results_response = <<>>
           THEN NextCheck(events, results_response, 10)
           ELSE IF target_properties_raises(results_response)
           THEN NextCheck(Append(events, Event("except", "AttributeError", TRUE)),
                          results_response, 10)
           ELSE Return(events, results_response,
                       target_properties(results_response))

\* the loop is over: "scraper timed out", return []
ChecksExhausted ==
    /\ pc = "check"
    /\ idx = max_checks
    /\ trace' = <<>>
    /\ current_properties' = <<>>
    /\ fn_result' = <<<<>>>>
    /\ pc' = "returned"
    /\ UNCHANGED <<now, idx>>
    /\ WaitFrame

NextWait ==
    \/ StatusRequestRaises
    \/ StatusWithoutData
    \/ StatusMalformed
    \/ StatusRunning
    \/ StatusFailed
    \/ ResultsRequestRaises
    \/ ResultsReturned
    \/ ChecksExhausted

SpecWait == InitWait /\ [][NextWait]_vars

-----------------------------------------------------------------------------
(* PropertyMonitorScheduler.start step by step.  scheduler.main is the     *)
(* position of start(), scheduler.test the steps test_system took,         *)
(* scheduler.configured the ids of the jobs added, scheduler.state the     *)
(* state of the BlockingScheduler.  The initial job is a monitoring cycle  *)
(* of the job above.                                                       *)

JobIds == {"property_monitoring", "status_report", "daily_summary", "cleanup"}

\* the table properties start() finds: empty, or with the row an earlier
\* run of the program left
StartStores == {{}, {Row(1, Listing("Y", "Studio", PyFloat(1000)), 0)}}

InitStart ==
    /\ properties \in StartStores
    /\ seq_properties = Cardinality(properties)
    /\ price_history = <<>>
    /\ monitoring_log = <<>>
    /\ consecutive_errors = 0
    /\ sched_errors = 0
    /\ now = 0
    /\ pc = "idle"
    /\ current_properties = <<>>
    /\ idx = 0
    /\ new_count = 0
    /\ updated_count = 0
    /\ deleted_ids = {}
    /\ deleted_count = 0
    /\ stats = NoStats
    /\ cycles = 0
    /\ trace = <<>>
    /\ before = NoBefore
    /\ source_raised = FALSE
    /\ fn_args = <<>>
    /\ fn_result = <<>>
    /\ scheduler = [main |-> "start", state |-> "stopped", test |-> <<>>,
                    passed |-> FALSE, configured |-> {}]

\* the steps of test_system in their order
TestSteps == <<"test_connection", "fetch_all_properties",
               "get_monitoring_stats", "send_startup_notification">>

\* start() passing on to setup_jobs whatever test_system returned
test_system_ignored(steps) ==
    [main |-> "setup_jobs", state |-> "stopped", test |-> steps,
     passed |-> FALSE, configured |-> {}]

\* test_system when the Telegram test fails or a step raises: False, and
\* start() returns False
test_system_fails(steps) ==
    [main |-> "returned_false", state |-> "stopped", test |-> steps,
     passed |-> FALSE, configured |-> {}]

\* test_system: test_connection returns False, or one of the steps raises,
\* or all four steps are taken and it returns True
TestSystem ==
    /\ scheduler.main = "start"
    /\ \/ \E n \in 1..Len(TestSteps) :
            scheduler' = test_system_fails(SubSeq(TestSteps, 1, n))
       \/ scheduler' = [scheduler EXCEPT !.main = "setup_jobs",
                                         !.test = TestSteps,
                                         !.passed = TRUE]
    /\ UNCHANGED <<NotScheduler, now>>

\* setup_jobs: the four add_job calls on the scheduler not yet started
SetupJobs ==
    /\ scheduler.main = "setup_jobs"
    /\ scheduler' = [scheduler EXCEPT !.main = "initial_job",
                                      !.configured = JobIds]
    /\ UNCHANGED <<NotScheduler, now>>

\* run_monitoring_job called by start(): the cycle begins
RunInitialJob ==
    /\ scheduler.main = "initial_job"
    /\ FetchProperties(FaultOutcomes, 1, MaxEmpty)

\* run_monitoring_job has returned to start(), and scheduler.start() runs
\* the scheduler loop
SchedulerLoopStarts ==
    /\ scheduler.main = "initial_job"
    /\ pc = "done"
    /\ scheduler' = [scheduler EXCEPT !.main = "blocking", !.state = "running"]
    /\ UNCHANGED <<NotScheduler, now>>

NextStart ==
    \/ TestSystem
    \/ SetupJobs
    \/ RunInitialJob
    \/ ProcessProperty
    \/ ProcessPropertyRaises
    \/ ProcessPropertyRaisesLogRaises
    \/ CheckForDeletedProperties
    \/ MarkDeleted
    \/ LogMonitoringRun
    \/ MonitoringJobEnd
    \/ SchedulerLoopStarts

SpecStart == InitStart /\ [][NextStart]_vars

-----------------------------------------------------------------------------
(* Vocabulary of the properties: one cycle, from its fetch to its return   *)

\* the external_ids of the snapshot of the cycle in progress
SnapshotIds ==
    {current_properties[i].external_id : i \in DOMAIN current_properties} \ {""}

\* the external_ids that were active when the cycle started
ActiveBefore == get_active_external_ids(before.properties)

\* the rows active when the cycle started that are inactive now
Deactivated ==
    {r.external_id : r \in {q \in properties :
        /\ ~q.is_active
        /\ \E b \in before.properties : b.id = q.id /\ b.is_active}}

\* the external_ids of the events of kind op in the trace of the cycle
Events(op) == {i \in DOMAIN trace : trace[i].op = op}
EventIds(op) == {trace[i].ext : i \in Events(op)}

\* run_monitoring_cycle has returned
CycleOver == pc = "returned"

-----------------------------------------------------------------------------
(* C1: when the loop of _process_properties is over, every snapshot listing *)
(* with an external_id that had no active row has a new active row and is  *)
(* counted new, and every one whose active row hashed differently is       *)
(* counted updated and its row holds the incoming fields.                  *)
C1_Classified ==
    pc = "check_deleted" =>
        LET known(i) == get_property_by_external_id(before.properties,
                            current_properties[i].external_id)
            news == {i \in DOMAIN current_properties : known(i) = {}}
            upds == {i \in DOMAIN current_properties :
                        \E e \in known(i) :
                            has_property_changed(e, current_properties[i])}
        IN /\ new_count = Cardinality(news)
           /\ updated_count = Cardinality(upds)
           /\ \A i \in news :
                \E r \in properties \ before.properties :
                    /\ r.external_id = current_properties[i].external_id
                    /\ r.is_active
           /\ \A i \in upds :
                \A e \in known(i) :
                    Updated(e, current_properties[i], now) \in properties

(* C2: when a cycle has returned, the rows it marked inactive are those of *)
(* the external_ids active before it minus the external_ids of its         *)
(* snapshot, each with one deletion notification; a cycle with an empty    *)
(* snapshot marks none and sends no deletion notification.                 *)
C2_DeletedSet ==
    CycleOver =>
        IF current_properties = <<>>
        THEN /\ properties = before.properties
             /\ Events("notify_deleted") = {}
        ELSE /\ Deactivated = ActiveBefore \ SnapshotIds
             /\ EventIds("notify_deleted") = ActiveBefore \ SnapshotIds
             /\ Cardinality(Events("notify_deleted")) = Cardinality(Deactivated)
             /\ stats.deleted = Cardinality(Deactivated)

\* a cycle returned after marking inactive one of several active rows
C2_Witness ==
    /\ CycleOver
    /\ Deactivated = {"X"}
    /\ "Y" \in ActiveBefore \cap SnapshotIds

\* a cycle with an empty snapshot returned and rows were active
C2_WitnessEmpty ==
    /\ CycleOver
    /\ current_properties = <<>>
    /\ ActiveBefore # {}

(* C3: a cycle in which a source raised marks no active row inactive.      *)
C3_DeletionGated ==
    (CycleOver /\ source_raised) => Deactivated = {}

(* C4: a failing cycle that starts with consecutive_errors already at or    *)
(* above ERROR_NOTIFICATION_THRESHOLD sends no error notification: only    *)
(* the cycle in which the counter reaches the threshold sends one.         *)
C4_EscalatesOnce ==
    (CycleOver /\ before.consecutive_errors >= ERROR_NOTIFICATION_THRESHOLD)
        => Events("notify_error") = {}

(* C5: when a cycle has returned, consecutive_errors is 0 if the cycle     *)
(* completed with at least one listing found, and otherwise its value      *)
(* before the cycle plus one.                                              *)
C5_Counter ==
    CycleOver =>
        consecutive_errors =
            IF stats.found > 0 THEN 0 ELSE before.consecutive_errors + 1

-----------------------------------------------------------------------------
\* the rows the cycle inserted
Inserted ==
    {r \in properties : \A b \in before.properties : b.id # r.id}

\* the price_history entries the cycle appended
Appended ==
    {i \in DOMAIN price_history : i > before.price_history}

\* the external_id of the row with surrogate id property_id
ExternalIdOf(property_id) ==
    {r.external_id : r \in {q \in properties : q.id = property_id}}

\* the notification attempts of kind op for external_id e
Attempts(op, e) == {i \in Events(op) : trace[i].ext = e}

(* C6: when a cycle has returned, each row it inserted, each price         *)
(* transition it recorded and each row it marked inactive has exactly one  *)
(* notification attempt in that cycle, whether the attempt succeeded or    *)
(* not, and the cycle made no other new, price or deletion notification    *)
(* attempt (so none for a transition of an earlier cycle).                 *)
C6_OneAttemptPerTransition ==
    CycleOver =>
        /\ \A r \in Inserted :
              Cardinality(Attempts("notify_new", r.external_id)) = 1
        /\ Cardinality(Events("notify_new")) = Cardinality(Inserted)
        /\ \A i \in Appended :
              \A e \in ExternalIdOf(price_history[i].property_id) :
                  Cardinality(Attempts("notify_price", e)) = 1
        /\ Cardinality(Events("notify_price")) = Cardinality(Appended)
        /\ \A e \in Deactivated :
              Cardinality(Attempts("notify_deleted", e)) = 1
        /\ Cardinality(Events("notify_deleted")) = Cardinality(Deactivated)

\* a cycle returned with the row it inserted in the store although the
\* notification of it failed, after going on to mark another row inactive
C6_Witness ==
    /\ CycleOver
    /\ \E r \in Inserted :
          \E i \in Attempts("notify_new", r.external_id) :
              /\ ~trace[i].ok
              /\ \E j \in Events("inactive") : j > i

-----------------------------------------------------------------------------
\* the snapshot listings of external_id e
Ingested(e) ==
    {current_properties[i] : i \in {j \in DOMAIN current_properties :
                                        current_properties[j].external_id = e}}

\* a cycle that ingests e when no row has e inserts it active with the hash
\* of the listing
C7_New(e) ==
    \A l \in Ingested(e) :
        (\A b \in before.properties : b.external_id # e) =>
            \E r \in Inserted :
                /\ r.external_id = e
                /\ r.is_active
                /\ r.price = REAL(l.price)
                /\ r.property_hash = generate_property_hash(l)

\* a cycle that ingests e at another positive price than the positive price
\* of its active row updates the row, appends the price transition and
\* stores another hash
C7_Updated(e) ==
    \A l \in Ingested(e) :
        \A b \in get_property_by_external_id(before.properties, e) :
            (b.price.n > 0 /\ l.price.n > 0 /\ b.price.n # l.price.n) =>
                /\ stats.updated >= 1
                /\ \E i \in Appended :
                      /\ price_history[i].property_id = b.id
                      /\ price_history[i].old_price = b.price
                      /\ price_history[i].new_price = REAL(l.price)
                /\ \E r \in properties :
                      /\ r.id = b.id
                      /\ r.is_active
                      /\ r.price = REAL(l.price)
                      /\ r.property_hash = generate_property_hash(l)
                      /\ r.property_hash # b.property_hash

\* a cycle that ingests no e marks the active row of e inactive
C7_Deleted(e) ==
    (e \in ActiveBefore /\ Ingested(e) = {}) =>
        /\ e \in Deactivated
        /\ stats.deleted >= 1

(* C7 as stated: after a cycle, for every id: ingested while unknown it is *)
(* new and active with the hash of the listing; ingested at another price  *)
(* it is updated with the price transition recorded and another hash; not  *)
(* ingested it is marked inactive.                                         *)
C7_EndToEnd_AnySnapshot ==
    CycleOver =>
        \A e \in Ids : C7_New(e) /\ C7_Updated(e) /\ C7_Deleted(e)

(* C7 amended: the same, the third step for a cycle whose snapshot is not  *)
(* empty.                                                                  *)
C7_EndToEnd ==
    CycleOver =>
        \A e \in Ids :
            /\ C7_New(e)
            /\ C7_Updated(e)
            /\ current_properties # <<>> => C7_Deleted(e)

\* the third of three cycles returned: X was inserted by the first at 1000,
\* updated by the second to 1200 and is marked inactive by the third
C7_Witness ==
    /\ CycleOver
    /\ Len(monitoring_log) = 3
    /\ monitoring_log[1].new_properties = 1
    /\ monitoring_log[2].updated_properties = 1
    /\ monitoring_log[3].deleted_properties = 1
    /\ "X" \in Deactivated
    /\ \E r \in properties :
          /\ r.external_id = "X"
          /\ r.price = PyFloat(1200)
          /\ price_history = <<[property_id |-> r.id,
                                old_price |-> PyFloat(1000),
                                new_price |-> PyFloat(1200),
                                change_date |-> 2]>>

-----------------------------------------------------------------------------
\* the snapshot listings that meet an active row they hash differently from:
\* pairs of the row as it was and the listing
UpdatedPairs ==
    {<<b, current_properties[i]>> :
        <<b, i>> \in {x \in before.properties \X DOMAIN current_properties :
            /\ x[1].is_active
            /\ x[1].external_id = current_properties[x[2]].external_id
            /\ generate_property_hash(x[1])
                   # generate_property_hash(current_properties[x[2]])}}

\* the entries the cycle appended to price_history for row property_id
AppendedFor(property_id) ==
    {i \in Appended : price_history[i].property_id = property_id}

(* C8: every price_history entry has an old and a new price that differ    *)
(* and are both positive; and a cycle that meets a stored price of 0 with  *)
(* a positive incoming price updates the row and appends no entry for it.  *)
C8_PriceHistory ==
    /\ \A i \in DOMAIN price_history :
          /\ price_history[i].old_price.n # price_history[i].new_price.n
          /\ price_history[i].old_price.n > 0
          /\ price_history[i].new_price.n > 0
    /\ CycleOver =>
          \A u \in UpdatedPairs :
              (u[1].price.n = 0 /\ u[2].price.n > 0) =>
                  /\ Attempts("update", u[1].external_id) # {}
                  /\ Updated(u[1], u[2], now) \in properties
                  /\ AppendedFor(u[1].id) = {}

\* a cycle returned that met a stored price of 0 with a positive price, and
\* price_history holds an entry of an earlier cycle
C8_Witness ==
    /\ CycleOver
    /\ \E u \in UpdatedPairs : u[1].price.n = 0 /\ u[2].price.n > 0
    /\ price_history # <<>>

(* C9: when a cycle has returned, every updated listing has its row        *)
(* overwritten; if its stored and incoming price differ and are both       *)
(* positive, the cycle appended the one entry (row id, old, new) and made  *)
(* one price notification attempt for it; otherwise it appended no entry   *)
(* and made no price notification attempt for it.                          *)
C9_PriceTransition ==
    CycleOver =>
        \A u \in UpdatedPairs :
            /\ Updated(u[1], u[2], now) \in properties
            /\ IF /\ u[1].price.n # u[2].price.n
                  /\ u[1].price.n > 0
                  /\ u[2].price.n > 0
               THEN /\ Cardinality(AppendedFor(u[1].id)) = 1
                    /\ \A i \in AppendedFor(u[1].id) :
                          /\ price_history[i].old_price = u[1].price
                          /\ price_history[i].new_price = REAL(u[2].price)
                    /\ Cardinality(Attempts("notify_price", u[1].external_id)) = 1
               ELSE /\ AppendedFor(u[1].id) = {}
                    /\ Attempts("notify_price", u[1].external_id) = {}

\* a cycle returned that updated one row for a price transition and another
\* one, or the same in an earlier cycle, for a change of title alone
C9_Witness ==
    /\ CycleOver
    /\ \E u \in UpdatedPairs :
          /\ u[1].price = PyFloat(1000)
          /\ u[2].price = PyFloat(1200)
          /\ u[1].title = u[2].title
    /\ \E r \in properties : r.title = "Studio renovated"

\* a cycle returned that updated a row whose title alone changed
C9_WitnessTitle ==
    /\ CycleOver
    /\ \E u \in UpdatedPairs :
          /\ u[1].price = REAL(u[2].price)
          /\ u[1].title # u[2].title

-----------------------------------------------------------------------------
\* the concatenated outputs of the sources that ran and returned, in the
\* order Al Wasl, UAE API, Apify
Delivered ==
    LET wasl == fn_args[1]
        uae == fn_args[2]
        apify == fn_args[3]
    IN (IF ~wasl.raised THEN wasl.out ELSE <<>>)
       \o (IF uae.key THEN uae.out ELSE <<>>)
       \o (IF apify.key /\ ~apify.raised THEN apify.out ELSE <<>>)

(* C10: the snapshot fetch_all_properties returns holds exactly one        *)
(* listing per distinct non-empty external_id of the concatenated outputs, *)
(* and it is the first listing of that id in the concatenation.            *)
C10_FirstSeen ==
    pc = "result" =>
        LET ids == {Delivered[i].external_id : i \in DOMAIN Delivered} \ {""}
            first(e) == CHOOSE i \in DOMAIN Delivered :
                            /\ Delivered[i].external_id = e
                            /\ \A j \in 1..(i - 1) : Delivered[j].external_id # e
        IN /\ {fn_result[k].external_id : k \in DOMAIN fn_result} = ids
           /\ Len(fn_result) = Cardinality(ids)
           /\ \A k \in DOMAIN fn_result :
                 fn_result[k] = Delivered[first(fn_result[k].external_id)]

\* the aggregator returned one listing for an id that two sources
\* delivered with different prices
C10_Witness ==
    /\ pc = "result"
    /\ Len(fn_result) = 1
    /\ \E i, j \in DOMAIN Delivered :
          /\ i < j
          /\ Delivered[i].external_id = Delivered[j].external_id
          /\ Delivered[i].external_id # ""
          /\ Delivered[i] # Delivered[j]
          /\ fn_result[1] = Delivered[i]
    /\ fn_args[1].out # <<>>
    /\ fn_args[3].out # <<>>

-----------------------------------------------------------------------------
\* the seven hashed fields
HashedKeys == {"external_id", "title", "price", "location", "bedrooms",
               "bathrooms", "size_sqft"}

\* what generate_property_hash reads of key in the dict of items: the value
\* of the item, or the default of the key when there is none
Read(items, key) ==
    IF \E i \in DOMAIN items : items[i][1] = key
    THEN DictOf(items)[key]
    ELSE IF key \in {"external_id", "title", "location"} THEN "" ELSE PyInt(0)

(* C11: two dicts in which generate_property_hash reads the same value for *)
(* each of the seven hashed fields get the same hash, whatever the         *)
(* insertion order of their items and whatever their description, url and  *)
(* raw_data.                                                               *)
C11_HashOfSevenFields ==
    pc = "result_hash" =>
        ((\A key \in HashedKeys : Read(fn_args[1], key) = Read(fn_args[2], key))
            => fn_result[1] = fn_result[2])

\* the same hash for two dicts of different insertion order, description,
\* url and raw_data, one without price and one with price 0
C11_Witness ==
    /\ pc = "result_hash"
    /\ fn_result[1] = fn_result[2]
    /\ fn_args[1][1][1] # fn_args[2][1][1]
    /\ DictOf(fn_args[1]).description # DictOf(fn_args[2]).description
    /\ DictOf(fn_args[1]).url # DictOf(fn_args[2]).url
    /\ DictOf(fn_args[1]).raw_data # DictOf(fn_args[2]).raw_data
    /\ DictOf(fn_args[1]).price = Missing
    /\ DictOf(fn_args[2]).price = PyInt(0)

-----------------------------------------------------------------------------
\* the snapshot listings that meet an active row they hash like: pairs of
\* the row as it was when the cycle began and the listing
UnchangedPairs ==
    {<<b, current_properties[i]>> :
        <<b, i>> \in {x \in before.properties \X DOMAIN current_properties :
            /\ x[1].is_active
            /\ x[1].external_id = current_properties[x[2]].external_id
            /\ generate_property_hash(x[1])
                   = generate_property_hash(current_properties[x[2]])}}

\* the store operations and notification attempts of the cycle for id e
EventsFor(e) == {i \in DOMAIN trace : trace[i].ext = e}

(* C12: when a cycle has returned, a snapshot listing that met an active   *)
(* row whose recomputed hash equals its own left that row as it was        *)
(* (every field, date_modified and is_active included), the cycle made no  *)
(* store operation and no notification attempt for its id, appended no     *)
(* price_history entry for the row, did not mark it inactive, and counted  *)
(* as new or updated only the other listings of the snapshot.              *)
C12_NoTransition ==
    CycleOver =>
        /\ \A u \in UnchangedPairs :
              /\ u[1] \in properties
              /\ EventsFor(u[1].external_id) = {}
              /\ AppendedFor(u[1].id) = {}
              /\ u[1].external_id \notin Deactivated
        /\ current_properties # <<>> =>
              stats.new + stats.updated
                  = Len(current_properties) - Cardinality(UnchangedPairs)

\* a cycle returned that met an unchanged listing written by an earlier
\* cycle and inserted another listing
C12_Witness ==
    /\ CycleOver
    /\ \E u \in UnchangedPairs : u[1].date_modified < now
    /\ stats.new = 1
    /\ Inserted # {}

-----------------------------------------------------------------------------
C13_WitnessDeleted ==
    /\ pc = "classified"
    /\ fn_result[1].deleted = {"X"}
    /\ fn_result[2].new = {"Y"}

-----------------------------------------------------------------------------
\* the kind of transition a store operation or notification attempt
\* belongs to: 1 new, 2 updated, 3 deleted, 0 none
TransitionRank(op) ==
    CASE op \in {"insert", "notify_new"}                    -> 1
      [] op \in {"update", "price_history", "notify_price"} -> 2
      [] op \in {"inactive", "notify_deleted"}              -> 3
      [] OTHER                                              -> 0

\* the positions of the cycle's trace that belong to a transition
Handled == {i \in DOMAIN trace : TransitionRank(trace[i].op) > 0}

(* C14: in every state of a cycle, what the cycle has done so far is in    *)
(* the order new, updated, deleted: nothing of an updated listing comes    *)
(* before something of a new one, and nothing of a deleted one before      *)
(* something of a new or updated one.                                      *)
C14_NewUpdatedDeleted ==
    \A i, j \in Handled :
        i < j => TransitionRank(trace[i].op) <= TransitionRank(trace[j].op)

\* the part of the order the code keeps: deletions come last
C14_DeletedLast ==
    \A i, j \in Handled :
        (i < j /\ TransitionRank(trace[i].op) = 3)
            => TransitionRank(trace[j].op) = 3

-----------------------------------------------------------------------------
(* C15: when a cycle has returned, monitoring_log holds exactly one record *)
(* more than when the cycle began.                                         *)
C15_OneLogRecord ==
    CycleOver => Len(monitoring_log) = before.monitoring_log + 1

\* the same for the cycles that fetched a snapshot that is not empty
C15_OneLogRecordNonEmpty ==
    (CycleOver /\ current_properties # <<>>)
        => Len(monitoring_log) = before.monitoring_log + 1

-----------------------------------------------------------------------------
\* the except branch of run_monitoring_cycle ran in the cycle
Escaped == Events("except") # {}

\* a cycle an error escaped from left one failure record and nothing else
FailureRecorded ==
    /\ Len(monitoring_log) = before.monitoring_log + 1
    /\ LET run == monitoring_log[Len(monitoring_log)] IN
          /\ run.status = "failed"
          /\ run.errors # ""
          /\ run.properties_found = 0
          /\ run.new_properties = 0
          /\ run.updated_properties = 0
          /\ run.deleted_properties = 0
    /\ stats = NoStats
    /\ Events("inactive") = {}
    /\ Events("raise") = {}

(* C16: a cycle whose except branch ran has, when it is over, appended one *)
(* monitoring_log record with status "failed", the error text and counts   *)
(* of zero, returned zeros, marked no row inactive and raised nothing to   *)
(* run_monitoring_job.                                                     *)
C16_FailureLogged ==
    (pc \in {"returned", "done"} /\ Escaped) => FailureRecorded

\* the same for the cycles that returned to run_monitoring_job
C16_FailureLoggedWhenReturned ==
    (CycleOver /\ Escaped) => FailureRecorded

-----------------------------------------------------------------------------
\* a store operation of the cycle for id e raised
Failed(e) ==
    \E i \in EventsFor(e) :
        /\ trace[i].op \in {"lookup", "insert", "update", "price_history",
                            "inactive"}
        /\ ~trace[i].ok

\* the cycle is logged as successful, and every id none of whose store
\* operations raised has had its transition: inserted when it had no row,
\* overwritten when its active row hashed differently, marked inactive when
\* its active row is absent from the snapshot
OthersPersisted ==
    /\ Len(monitoring_log) = before.monitoring_log + 1
    /\ monitoring_log[Len(monitoring_log)].status = "success"
    /\ \A i \in DOMAIN current_properties :
          LET l == current_properties[i]
              e == l.external_id
          IN ~Failed(e) =>
                /\ (\A b \in before.properties : b.external_id # e)
                      => \E r \in Inserted : r.external_id = e /\ r.is_active
                /\ \A b \in get_property_by_external_id(before.properties, e) :
                      has_property_changed(b, l)
                          => Updated(b, l, now) \in properties
    /\ \A e \in ActiveBefore \ SnapshotIds : ~Failed(e) => e \in Deactivated

(* C17: when a cycle with a snapshot that is not empty is over, whatever   *)
(* store operation raised in it, the cycle is logged as successful and     *)
(* every listing and every absent property whose own store operations did  *)
(* not raise has had its transition.                                       *)
C17_FailureIsolated ==
    (pc \in {"returned", "done"} /\ current_properties # <<>>)
        => OthersPersisted

\* the same for the cycles in which only insert_property, update_property
\* or record_price_change raised
C17_HandlerFailureIsolated ==
    (CycleOver /\ current_properties # <<>> /\ ~Escaped
        /\ \A i \in Events("inactive") : trace[i].ok)
        => OthersPersisted

-----------------------------------------------------------------------------
\* the non-empty external_ids of a list of listings
IdsOf(listings) ==
    {listings[i].external_id : i \in DOMAIN listings} \ {""}

\* fetch_all_properties called the source and the call returned
Succeeded(name) ==
    \E i \in DOMAIN trace :
        trace[i].op = "call" /\ trace[i].ext = name /\ trace[i].ok

\* fetch_all_properties called the source
Called(name) ==
    \E i \in DOMAIN trace : trace[i].op = "call" /\ trace[i].ext = name

C18_WitnessAllFail ==
    /\ pc = "result"
    /\ ~Succeeded("wasl")
    /\ Called("uae") /\ ~Succeeded("uae")
    /\ Called("apify") /\ ~Succeeded("apify")
    /\ fn_result = <<>>

-----------------------------------------------------------------------------
(* C19: in every state, a row whose price the cycle in progress changed    *)
(* from a positive price to another positive price has a price_history     *)
(* entry of that cycle with the old and the new price.                     *)
C19_PriceWithHistory ==
    \A b \in before.properties :
        \A r \in properties :
            (/\ r.id = b.id
             /\ b.price.n > 0
             /\ r.price.n > 0
             /\ r.price.n # b.price.n)
                => \E i \in AppendedFor(b.id) :
                      /\ price_history[i].old_price = b.price
                      /\ price_history[i].new_price = r.price

-----------------------------------------------------------------------------
\* what a reader gets from the store as it was when the cycle began
StatsBefore ==
    get_monitoring_stats(before.properties,
                         SubSeq(price_history, 1, before.price_history),
                         SubSeq(monitoring_log, 1, before.monitoring_log))

\* what a reader gets from the store the returned cycle left
StatsAfter == get_monitoring_stats(properties, price_history, monitoring_log)

(* C20: when a cycle has returned, what a status reader read while the     *)
(* cycle was in progress is what the store held before the cycle or what   *)
(* it holds after it.                                                      *)
C20_ReaderConsistent ==
    (CycleOver /\ fn_result # <<>> /\ fn_result[1].cycle = cycles)
        => fn_result[1].stats \in {StatsBefore, StatsAfter}

-----------------------------------------------------------------------------
(* C21: run_monitoring_job is never in progress twice at once: while the    *)
(* initial job of start() runs the scheduler is stopped and holds no job   *)
(* instance, the executor holds at most one instance of the monitoring     *)
(* job, and a fire time that comes due while an instance exists starts no  *)
(* second execution.                                                       *)
C21_NoOverlap ==
    /\ in_progress <= 1
    /\ Len(scheduler.jobs) <= 1
    /\ scheduler.main = "initial_job"
          => scheduler.state = "stopped" /\ scheduler.jobs = <<>>

\* a fire time came due while a cycle was in progress, and was skipped
C21_Witness ==
    /\ scheduler.last = "skipped"
    /\ in_progress = 1

\* several fire times were due at once and one job instance was submitted
C21_WitnessCoalesced ==
    /\ scheduler.last = "submitted"
    /\ scheduler.dropped > 0
    /\ in_progress = 0

-----------------------------------------------------------------------------
(* C22: no two rows of table properties, active or not, share an            *)
(* external_id or a property_hash, and every row holds the fields and the  *)
(* hash of one listing of its own external_id.  While a cycle runs, the    *)
(* rows that were inactive when it started are as they were and the table  *)
(* has grown by the inserts that succeeded: an INSERT that would break a   *)
(* constraint wrote nothing.  C22_WritesOwnRow says the same of every step *)
(* of the loop over the snapshot.                                          *)
UniqueRows ==
    \A r, q \in properties :
        (r.external_id = q.external_id \/ r.property_hash = q.property_hash)
            => r = q

\* the INSERT or UPDATE the loop would issue for listing l is refused
Refused(l) ==
    LET existing_property == get_property_by_external_id(properties, l.external_id)
    IN IF existing_property = {}
       THEN ~insert_allowed(properties, l)
       ELSE \E r \in existing_property :
               /\ has_property_changed(r, l)
               /\ ~update_allowed(properties, r.id, l)

WritesOwnRow ==
    pc = "process" =>
        LET l == current_properties[idx]
            written == properties' \ properties
        IN /\ Cardinality(written) <= 1
           /\ \A r \in written :
                 /\ r.external_id = l.external_id
                 /\ r.property_hash = generate_property_hash(l)
                 /\ r.title = l.title
                 /\ r.price = REAL(GetOrNone(l.price))
           /\ \A r \in properties \ properties' :
                 /\ r.external_id = l.external_id
                 /\ \E q \in written : q.id = r.id
           /\ (l.external_id # "" /\ Refused(l))
                 => /\ properties' = properties
                    /\ price_history' = price_history

RowsOfOneListing ==
    \A r \in properties :
        \E l \in CycleListings :
            /\ l.external_id = r.external_id
            /\ r.property_hash = generate_property_hash(l)
            /\ r.title = l.title
            /\ r.price = REAL(GetOrNone(l.price))

RefusedWritesNothing ==
    pc # "idle" =>
        /\ \A b \in before.properties : ~b.is_active => b \in properties
        /\ Cardinality(properties)
              = Cardinality(before.properties) + Cardinality(Events("insert"))

C22_Unique == UniqueRows /\ RowsOfOneListing /\ RefusedWritesNothing

C22_WritesOwnRow == [][WritesOwnRow]_vars

\* a listing whose external_id is held by an inactive row was handled: its
\* INSERT broke UNIQUE(external_id) and the store is as the cycle found it
C22_Witness ==
    /\ pc = "check_deleted"
    /\ properties = before.properties
    /\ \E i \in DOMAIN current_properties :
          LET l == current_properties[i]
          IN \E r \in properties :
                /\ r.external_id = l.external_id
                /\ ~r.is_active
                /\ r.property_hash # generate_property_hash(l)

-----------------------------------------------------------------------------
(* C23: a row of table properties disappears only in a step of the cleanup  *)
(* job, and only if it was inactive and last modified more than 30 days    *)
(* before; every step of a monitoring cycle keeps every row, so a listing  *)
(* absent from the snapshot keeps its row, inactive.                       *)
Removed == {r \in properties : \A q \in properties' : q.id # r.id}

RemovedByCleanupOnly ==
    /\ Removed # {} => CleanupOldData
    /\ \A r \in Removed :
          /\ ~r.is_active
          /\ r.date_modified < now - INACTIVE_RETENTION_DAYS
    /\ \A r \in properties \ Removed :
          \E q \in properties' :
             /\ q.id = r.id
             /\ q.external_id = r.external_id
             /\ ~r.is_active => ~q.is_active

C23_RemovedByCleanupOnly == [][RemovedByCleanupOnly]_vars

\* the cleanup job has removed an inactive row and kept an active row that
\* is as old and an inactive row that is 30 days old
C23_Witness ==
    /\ fn_result # <<>>
    /\ fn_result[1].at = now
    /\ fn_result[1].inactive_deleted = 1
    /\ \E r \in properties :
          r.is_active /\ r.date_modified < now - INACTIVE_RETENTION_DAYS

\* the cleanup job has kept an inactive row modified exactly 30 days before
C23_WitnessKept ==
    /\ fn_result # <<>>
    /\ fn_result[1].at = now
    /\ fn_result[1].inactive_deleted = 0
    /\ \E r \in properties :
          ~r.is_active /\ r.date_modified = now - INACTIVE_RETENTION_DAYS

-----------------------------------------------------------------------------
(* C24: every step keeps the entries of price_history and of                *)
(* monitoring_log that exist, in their order, and only appends.            *)
IsPrefix(s, t) == Len(s) <= Len(t) /\ SubSeq(t, 1, Len(s)) = s

C24_AppendOnly ==
    [][IsPrefix(price_history, price_history')
       /\ IsPrefix(monitoring_log, monitoring_log')]_vars

-----------------------------------------------------------------------------
(* C25: the snapshot fetch_all_properties returns holds no listing with an  *)
(* empty external_id, and it is the snapshot the same fetch returns when   *)
(* the sources deliver no such listing: what a cycle inserts, updates,     *)
(* counts, notifies and deactivates is what it would be without them.      *)
Identified(source) ==
    [source EXCEPT !.out = SelectSeq(@, LAMBDA l : l.external_id # "")]

C25_EmptyIdDropped ==
    pc = "result" =>
        /\ \A k \in DOMAIN fn_result : fn_result[k].external_id # ""
        /\ fn_result = fetch_all_properties(Identified(fn_args[1]),
                                            Identified(fn_args[2]),
                                            Identified(fn_args[3]))

\* two sources delivered a listing without external_id, one of them a
\* listing with one as well, and the snapshot is that listing alone
C25_Witness ==
    /\ pc = "result"
    /\ Len(fn_result) = 1
    /\ \E k \in DOMAIN fn_args[1].out : fn_args[1].out[k].external_id = ""
    /\ ~fn_args[1].raised
    /\ fn_args[2].key
    /\ \E k \in DOMAIN fn_args[2].out : fn_args[2].out[k].external_id = ""
    /\ \E k \in DOMAIN fn_args[2].out : fn_args[2].out[k].external_id # ""

\* the sources delivered listings without external_id only, and the
\* snapshot is empty
C25_WitnessOnlyEmpty ==
    /\ pc = "result"
    /\ fn_result = <<>>
    /\ ~fn_args[1].raised
    /\ Len(fn_args[1].out) = MaxFetched

\* a cycle meets no listing without external_id: none is in its snapshot,
\* none is written, notified or deactivated
C25_NeverInCycle ==
    /\ \A i \in DOMAIN current_properties :
          current_properties[i].external_id # ""
    /\ \A r \in properties : r.external_id # ""
    /\ \A i \in DOMAIN trace :
          trace[i].op \in {"lookup", "insert", "update", "price_history",
                           "inactive", "notify_new", "notify_price",
                           "notify_deleted"}
             => trace[i].ext # ""

-----------------------------------------------------------------------------
(* C26: the cycle that fetches an empty snapshot adds one to                *)
(* consecutive_errors, leaves tables properties and price_history as they  *)
(* are, attempts no new-listing, price-change or deletion notification,    *)
(* and returns found, new, updated and deleted all 0.                      *)
EmptyCycle == pc = "idle" /\ pc' = "returned"

EmptySoftFailure ==
    EmptyCycle =>
        /\ consecutive_errors' = consecutive_errors + 1
        /\ properties' = properties
        /\ seq_properties' = seq_properties
        /\ price_history' = price_history
        /\ \A i \in DOMAIN trace' : trace'[i].op = "notify_error"
        /\ stats' = [found |-> 0, new |-> 0, updated |-> 0, deleted |-> 0]

C26_EmptySoftFailure == [][EmptySoftFailure]_vars

\* the third empty cycle in a row on a store with an active row has
\* returned, and its only notification is the error notification
C26_Witness ==
    /\ pc = "returned"
    /\ current_properties = <<>>
    /\ before.consecutive_errors = 2
    /\ consecutive_errors = ERROR_NOTIFICATION_THRESHOLD
    /\ get_active_external_ids(properties) # {}
    /\ properties = before.properties
    /\ Len(trace) = 1

-----------------------------------------------------------------------------
(* C27: a notification that was not delivered returned False to its         *)
(* caller: the exception handler of the cycle is not entered after it, the *)
(* write it reports is in the store (the row inserted, the row updated     *)
(* with its price_history entry, the row inactive), and                    *)
(* consecutive_errors is what the fetch made it.                           *)
Notifications == {"notify_new", "notify_price", "notify_deleted", "notify_error"}

Undelivered == {i \in DOMAIN trace : trace[i].op \in Notifications /\ ~trace[i].ok}

Kept(op, e) ==
    \E r \in properties :
        /\ r.external_id = e
        /\ op = "notify_new" => r.is_active /\ r.date_added = now
        /\ op = "notify_price" =>
              /\ r.is_active /\ r.date_modified = now
              /\ \E k \in DOMAIN price_history :
                    /\ price_history[k].property_id = r.id
                    /\ price_history[k].change_date = now
                    /\ price_history[k].new_price = r.price
        /\ op = "notify_deleted" => ~r.is_active /\ r.date_modified = now

C27_WitnessNew ==
    /\ CycleOver
    /\ Cardinality({i \in Undelivered : trace[i].op = "notify_new"}) = MaxListings

\* the error notification of an empty cycle was not delivered
C27_WitnessError ==
    /\ CycleOver
    /\ current_properties = <<>>
    /\ Undelivered # {}

-----------------------------------------------------------------------------
(* C28: in the events of a cycle every store mutation (insert, update,      *)
(* price_history entry, deactivation) comes before the first new-listing,  *)
(* price-change or deletion notification, and the run-log record comes     *)
(* after the last of them.                                                 *)
Mutations == {"insert", "update", "price_history", "inactive"}
Transitions == {"notify_new", "notify_price", "notify_deleted"}

C28_PersistThenNotifyThenLog ==
    \A i, j \in DOMAIN trace :
        (i < j /\ trace[i].op \in Transitions)
            => /\ trace[j].op \notin Mutations
               /\ trace[j].op = "log" =>
                     \A k \in DOMAIN trace :
                        trace[k].op \in Transitions => k < j

-----------------------------------------------------------------------------
(* C29: when a cycle on a non-empty snapshot has returned, the external_ids *)
(* with an active row are the external_ids of the snapshot, and a listing  *)
(* of the snapshot whose row was inactive when the cycle started has an    *)
(* active row and one new-listing notification attempt.                    *)
Reappeared ==
    {e \in SnapshotIds :
        \E b \in before.properties : b.external_id = e /\ ~b.is_active}

C29_ActiveIsSnapshot ==
    (CycleOver /\ current_properties # <<>>) =>
        /\ get_active_external_ids(properties) = SnapshotIds
        /\ \A e \in Reappeared : Cardinality(Attempts("notify_new", e)) = 1

-----------------------------------------------------------------------------
(* C30: when a cycle on a non-empty snapshot has returned, the new, updated *)
(* and deleted counts it returns and the ones of its run-log record are    *)
(* the numbers of rows the cycle inserted, overwrote and turned inactive.  *)
Overwritten ==
    {b \in before.properties :
        /\ b.is_active
        /\ \E r \in properties : r.id = b.id /\ r.is_active /\ r # b}

C30_CountsExact ==
    (CycleOver /\ current_properties # <<>>) =>
        LET logged == monitoring_log[Len(monitoring_log)]
        IN /\ stats.new = Cardinality(Inserted)
           /\ stats.updated = Cardinality(Overwritten)
           /\ stats.deleted = Cardinality(Deactivated)
           /\ logged.new_properties = stats.new
           /\ logged.updated_properties = stats.updated
           /\ logged.deleted_properties = stats.deleted

-----------------------------------------------------------------------------
(* C31: when a cycle has returned whose snapshot the store already held     *)
(* (every listing has an active row with the hash of that listing, and no  *)
(* other row is active), it reports new, updated and deleted 0, has left   *)
(* every row as it was and has attempted no notification.                  *)
SnapshotStored ==
    /\ current_properties # <<>>
    /\ ActiveBefore = SnapshotIds
    /\ \A i \in DOMAIN current_properties :
          \E b \in before.properties :
             /\ b.is_active
             /\ b.external_id = current_properties[i].external_id
             /\ b.property_hash = generate_property_hash(current_properties[i])

C31_Convergence ==
    (CycleOver /\ SnapshotStored) =>
        /\ stats.new = 0 /\ stats.updated = 0 /\ stats.deleted = 0
        /\ properties = before.properties
        /\ \A i \in DOMAIN trace : trace[i].op \notin Notifications

-----------------------------------------------------------------------------
\* the external_ids of the snapshot that had no active row, and those whose
\* active row hashed differently, when the cycle started
NewBefore ==
    {e \in SnapshotIds : get_property_by_external_id(before.properties, e) = {}}

ChangedBefore ==
    {e \in SnapshotIds :
        \E b \in get_property_by_external_id(before.properties, e) :
            \E l \in Ingested(e) : has_property_changed(b, l)}

(* C32: in every state of a cycle the external_ids inserted, updated and    *)
(* marked inactive so far are pairwise disjoint and each was written once; *)
(* a row inserted in the cycle is active and its id is not among the ids   *)
(* taken for delisted; the listing about to be classified is looked up     *)
(* with the result the store of the start of the cycle gives, the ids      *)
(* taken for delisted are ids active at the start and absent from the      *)
(* snapshot, and the returned counts are those of that classification.     *)
C32_OneTransitionPerId ==
    pc # "idle" =>
        /\ EventIds("insert") \cap EventIds("update") = {}
        /\ EventIds("insert") \cap EventIds("inactive") = {}
        /\ EventIds("update") \cap EventIds("inactive") = {}
        /\ \A op \in {"insert", "update", "inactive"} :
              \A e \in EventIds(op) : Cardinality(Attempts(op, e)) = 1
        /\ \A r \in Inserted :
              /\ r.is_active
              /\ pc = "mark_deleted" => r.external_id \notin deleted_ids
        /\ EventIds("insert") \subseteq NewBefore
        /\ EventIds("update") \subseteq ChangedBefore
        /\ EventIds("inactive") \subseteq ActiveBefore \ SnapshotIds
        /\ (pc = "process" /\ current_properties[idx].external_id # "") =>
              get_property_by_external_id(properties,
                                          current_properties[idx].external_id)
              = get_property_by_external_id(before.properties,
                                            current_properties[idx].external_id)
        /\ pc = "mark_deleted" => deleted_ids \subseteq ActiveBefore \ SnapshotIds
        /\ (CycleOver /\ current_properties # <<>>) =>
              /\ stats.new = Cardinality(NewBefore)
              /\ stats.updated = Cardinality(ChangedBefore)
              /\ stats.deleted = Cardinality(ActiveBefore \ SnapshotIds)

\* a cycle returned that inserted one listing, updated another and marked a
\* third row inactive
C32_Witness ==
    /\ CycleOver
    /\ EventIds("insert") # {}
    /\ EventIds("inactive") # {}
    /\ Inserted # {}
    /\ \A r \in Inserted : r.is_active

\* a cycle returned that updated one listing and inserted the other
C32_WitnessUpdated ==
    /\ CycleOver
    /\ EventIds("insert") # {}
    /\ EventIds("update") # {}

-----------------------------------------------------------------------------
\* the event before notification attempt i is the successful write op for
\* the same external_id
After(i, op) ==
    /\ i > 1
    /\ trace[i - 1] = Event(op, trace[i].ext, TRUE)

(* C33: in every state, each new-listing notification attempt of the cycle *)
(* directly follows the committed insert of its row, each price-change     *)
(* attempt the committed price-history entry and before it the committed   *)
(* row update, each deletion attempt the committed inactivation, and the   *)
(* write is in the store; after a store write that raised, the cycle has   *)
(* no transition notification attempt for that external_id.                *)
C33_CommitBeforeNotify ==
    /\ \A i \in Events("notify_new") :
          After(i, "insert") /\ Kept("notify_new", trace[i].ext)
    /\ \A i \in Events("notify_price") :
          /\ After(i, "price_history")
          /\ After(i - 1, "update")
          /\ Kept("notify_price", trace[i].ext)
    /\ \A i \in Events("notify_deleted") :
          After(i, "inactive") /\ Kept("notify_deleted", trace[i].ext)
    /\ \A j \in DOMAIN trace :
          (trace[j].op \in Mutations /\ ~trace[j].ok) =>
              \A i \in DOMAIN trace :
                  ~(trace[i].op \in Transitions /\ trace[i].ext = trace[j].ext)

\* a cycle returned in which a price-change notification was attempted for
\* one listing and the insert of the other raised
C33_Witness ==
    /\ CycleOver
    /\ Events("notify_price") # {}
    /\ \E j \in Events("insert") : ~trace[j].ok

\* a cycle returned in which the price-history write raised after the row
\* update had committed
C33_WitnessHistoryRaised ==
    /\ CycleOver
    /\ \E j \in Events("price_history") :
          /\ ~trace[j].ok
          /\ \E r \in properties :
                r.external_id = trace[j].ext /\ r.date_modified = now

\* a cycle returned in which the inactivation raised
C33_WitnessInactiveRaised ==
    /\ CycleOver
    /\ \E j \in Events("inactive") : ~trace[j].ok

-----------------------------------------------------------------------------
(* C34: in every state every price_history entry has the id of a row of    *)
(* properties.                                                             *)
C34_ReferentialIntegrity ==
    \A k \in DOMAIN price_history :
        \E r \in properties : r.id = price_history[k].property_id

\* no step gives a surrogate id that was already issued to a row that is not
\* the row that had it, and no two rows share an id
C34_IdsNotReused ==
    [][/\ \A r \in properties' :
             r.id <= seq_properties =>
                 \E q \in properties :
                     q.id = r.id /\ q.external_id = r.external_id
       /\ \A r, q \in properties' : r.id = q.id => r = q]_vars

-----------------------------------------------------------------------------
\* the columns update_property may write, and those mark_property_inactive
\* may write
UpdateColumns ==
    {"property_hash", "title", "location", "price", "bedrooms", "bathrooms",
     "size_sqft", "description", "url", "raw_data", "date_modified"}

InactiveColumns == {"is_active", "date_modified"}

\* row r is row q changed in no column outside columns
SameOutside(q, r, columns) ==
    /\ DOMAIN r = DOMAIN q
    /\ \A c \in DOMAIN q \ columns : r[c] = q[c]

\* the table has the rows it had, each changed only if hit(q), and then only
\* in the given columns
Frame(hit(_), columns) ==
    /\ Cardinality(properties) = Cardinality(before.properties)
    /\ \A q \in before.properties :
          IF hit(q)
          THEN \E r \in properties : r.id = q.id /\ SameOutside(q, r, columns)
          ELSE q \in properties

(* C35: after update_property(property_id, ...) every row with another id  *)
(* is as it was and the row with that id differs at most in the content    *)
(* columns, property_hash and date_modified (external_id, source,          *)
(* is_active, date_added and id as before), and holds the given content;   *)
(* after mark_property_inactive(external_id) every row with another        *)
(* external_id is as it was, the row with it differs at most in is_active  *)
(* and date_modified and is inactive, and the call returned true exactly   *)
(* when the table had a row with that external_id.                         *)
C35_Frame ==
    /\ (fn_args # <<>> /\ fn_args[1] = "update_property") =>
          LET hit(q) == q.id = fn_args[2] /\ ~fn_result[1].raised IN
          /\ Frame(hit, UpdateColumns)
          /\ \A r \in properties :
                (r.id = fn_args[2] /\ ~fn_result[1].raised) =>
                    /\ r.title = fn_args[3].title
                    /\ r.price = REAL(fn_args[3].price)
                    /\ r.property_hash = generate_property_hash(fn_args[3])
                    /\ r.date_modified = now
    /\ (fn_args # <<>> /\ fn_args[1] = "mark_property_inactive") =>
          LET hit(q) == q.external_id = fn_args[2] IN
          /\ Frame(hit, InactiveColumns)
          /\ \A r \in properties :
                r.external_id = fn_args[2] =>
                    ~r.is_active /\ r.date_modified = now
          /\ fn_result[1] = Returned(\E q \in before.properties : hit(q))

\* update_property has rewritten the inactive row of X with another price
\* while another row was in the table
C35_Witness ==
    /\ fn_args # <<>>
    /\ fn_args[1] = "update_property"
    /\ fn_result = <<Returned(TRUE)>>
    /\ Cardinality(properties) = 2
    /\ \E q \in before.properties, r \in properties :
          /\ q.id = fn_args[2] /\ r.id = q.id
          /\ ~q.is_active /\ ~r.is_active
          /\ r.price # q.price

\* mark_property_inactive found no row and returned false; it found the
\* active row and returned true
C35_WitnessNoRow ==
    /\ fn_args # <<>>
    /\ fn_args[1] = "mark_property_inactive"
    /\ fn_result = <<Returned(FALSE)>>
    /\ properties # {}

C35_WitnessInactive ==
    /\ fn_args # <<>>
    /\ fn_args[1] = "mark_property_inactive"
    /\ fn_result = <<Returned(TRUE)>>
    /\ \E q \in before.properties : q.external_id = fn_args[2] /\ q.is_active
    /\ Cardinality(properties) = 2

\* update_property broke UNIQUE(property_hash) and raised
C35_WitnessRaised ==
    /\ fn_args # <<>>
    /\ fn_args[1] = "update_property"
    /\ fn_result = <<Raised>>

-----------------------------------------------------------------------------
\* the request attempts made so far
Gets == Events("get")

\* at most MAX_RETRIES attempts are made; a return directly follows the
\* first successful attempt and carries its body; the call raises only
\* after MAX_RETRIES failed attempts, and then the error of the last
C36_AtMostMaxRetries ==
    /\ Cardinality(Gets) <= MAX_RETRIES
    /\ pc = "returned" =>
          /\ trace[Len(trace)].ok
          /\ \A i \in 1..(Len(trace) - 1) : ~trace[i].ok
          /\ fn_result = <<[raised |-> FALSE, value |-> trace[Len(trace)].ext]>>
    /\ pc = "raised" =>
          /\ Len(trace) = MAX_RETRIES
          /\ \A i \in DOMAIN trace : ~trace[i].ok
          /\ fn_result = <<[raised |-> TRUE, value |-> trace[MAX_RETRIES].ext]>>
    /\ (Len(trace) = MAX_RETRIES /\ \A i \in DOMAIN trace :
                                        ~trace[i].ok /\ trace[i].ext # "")
          => pc = "raised"

(* C36: every call of _make_request_with_retry ends: it returns or raises. *)
C36_Terminates == <>(pc \in {"returned", "raised"})

-----------------------------------------------------------------------------
\* the last check reported status
Reported(status) == trace # <<>> /\ trace[1] = Event("status", status, TRUE)

\* the listings of the dataset whose location text names a target location
TargetListings ==
    SelectSeq(current_properties,
              LAMBDA item : /\ item.location.k = "str"
                            /\ is_target_location(item.location))

\* at most max_checks checks are made; a check that reports FAILED, ABORTED
\* or TIMED-OUT returns the empty list, and so does the end of the loop
C37_Bounded ==
    /\ idx <= max_checks
    /\ \A status \in {"FAILED", "ABORTED", "TIMED-OUT"} :
          Reported(status) => pc = "returned" /\ fn_result = <<<<>>>>
    /\ (pc = "returned" /\ trace = <<>>) =>
          idx = max_checks /\ fn_result = <<<<>>>>

(* C37: when a check has reported SUCCEEDED and the results request gave a *)
(* non-empty dataset, _wait_for_scraper_results has returned the listings  *)
(* of the dataset that are in a target location.                           *)
C37_ReturnsOnSucceeded ==
    (Reported("SUCCEEDED") /\ current_properties # <<>>) =>
        /\ pc = "returned"
        /\ Len(fn_result[1]) = Len(TargetListings)
        /\ \A i \in DOMAIN TargetListings :
              fn_result[1][i].location = TargetListings[i].location

-----------------------------------------------------------------------------
\* no monitoring cycle has begun: nothing was fetched for a cycle, nothing
\* written and nothing logged
NoCycleYet ==
    /\ pc = "idle"
    /\ cycles = 0
    /\ properties \in StartStores
    /\ monitoring_log = <<>>
    /\ consecutive_errors = 0
    /\ trace = <<>>

(* C38: until test_system has passed, no job is configured and no          *)
(* monitoring cycle has begun; when start() has returned False after a     *)
(* failed test that is still so and the scheduler is stopped; while the    *)
(* initial cycle runs the jobs are configured and the scheduler is         *)
(* stopped; and when the scheduler loop runs, the test had passed with all *)
(* its steps, the four jobs are configured and the one initial job has     *)
(* returned.                                                               *)
C38_StartOrder ==
    /\ scheduler.main \in {"start", "setup_jobs", "returned_false"} =>
          /\ NoCycleYet
          /\ scheduler.configured = {}
          /\ scheduler.state = "stopped"
    /\ scheduler.main = "returned_false" => ~scheduler.passed
    /\ scheduler.main \in {"setup_jobs", "initial_job", "blocking"} =>
          scheduler.passed /\ scheduler.test = TestSteps
    /\ scheduler.main = "initial_job" =>
          scheduler.configured = JobIds /\ scheduler.state = "stopped"
    /\ ~NoCycleYet => scheduler.configured = JobIds
    /\ scheduler.state = "running" =>
          /\ scheduler.main = "blocking"
          /\ scheduler.configured = JobIds
          /\ pc = "done"
          /\ cycles <= 1
          /\ cycles = 1 \/ consecutive_errors = 1

\* the scheduler loop runs after an initial cycle that inserted a listing
\* and marked the row of another inactive
C38_Witness ==
    /\ scheduler.state = "running"
    /\ \E r \in properties : r.date_added = now
    /\ \E r \in properties : ~r.is_active
    /\ Len(monitoring_log) = 1

\* start() returned False after the API test of test_system raised
C38_WitnessAborted ==
    /\ scheduler.main = "returned_false"
    /\ scheduler.test = <<"test_connection", "fetch_all_properties">>

\* the scheduler loop runs after an initial cycle that found nothing
C38_WitnessEmpty ==
    /\ scheduler.state = "running"
    /\ cycles = 0
    /\ consecutive_errors = 1
    /\ monitoring_log = <<>>

====
